---- MODULE Spec2Model ----
(***************************************************************************)
(* Bridge-status reconciliation engine of the dashboard backend:           *)
(*   - RpcClientManager (bridge/status.rs) and execute_with_retries        *)
(*     (utils/rpc_client.rs): per-operator retry and failover;             *)
(*   - BridgeStatusCache (bridge/cache.rs): the keyed entity tables;       *)
(*   - bridge_monitoring_task (bridge/status.rs): the reconciliation loop; *)
(*   - get_bridge_status (bridge/status.rs): the reader behind the         *)
(*     readiness gate.                                                     *)
(***************************************************************************)
EXTENDS Integers, Sequences, FiniteSets, TLC

(***************************************************************************)
(* Bounds of the model.                                                    *)
(***************************************************************************)
\* number of operator entries a configuration may hold
MaxOperators == 3

\* execute_with_retries: ExponentialBackoff::new(3, 10, 1.5), max_retries() = 3
MaxRetries == 3

\* operator public keys; the order of the naturals stands for the
\* lexicographic order of the key strings
Keys == 1..MaxOperators

\* Option<T>: None is the empty tuple, Some(v) the one-element tuple
None == <<>>
Some(v) == <<v>>
IsSome(o) == Len(o) = 1
Unwrap(o) == o[1]

RECURSIVE SeqsUpTo(_, _)
\* all sequences over S of length at most n
SeqsUpTo(S, n) ==
    IF n = 0 THEN {<<>>}
    ELSE LET shorter == SeqsUpTo(S, n - 1)
         IN  shorter \cup {Append(s, x) : s \in {t \in shorter : Len(t) = n - 1}, x \in S}

SeqToSet(s) == {s[i] : i \in 1..Len(s)}

\* number of positions of sequence s holding x
Count(s, x) == Cardinality({i \in 1..Len(s) : s[i] = x})

VARIABLES
    \* ---- configuration and world, fixed by Init
    operators,      \* config.operators(): the configured public keys, in configuration order
    world,          \* what the operators can answer in this run (see Worlds)
    readers,        \* the get_bridge_status callers
    settled,        \* the identities the bridge has settled for good (see Settle)
    \* ---- one query_clients_with_retry call, step by step
    q_pc,           \* position of the call
    q_idx,          \* position of the `for (key, client) in self.clients.iter()` loop
    attempt,        \* execute_with_retries: the `attempt` loop variable
    q_result,       \* the Option<T> the call returned, once q_pc = "done"
    calls,          \* the invocations of operation(): operator key and outcome, in call order
    sleeps,         \* number of backoff sleeps of the call so far
    \* ---- BridgeStatusCache behind context.status_cache
    cache_operators,    \* BridgeStatusCache.operators
    deposits,           \* BridgeStatusCache.deposits
    withdrawals,        \* BridgeStatusCache.withdrawals
    reimbursements,     \* BridgeStatusCache.reimbursements
    write_locked,       \* the RwLock's write guard is held (by the loop)
    read_holders,       \* the readers holding a read guard
    \* ---- BridgeMonitoringContext's readiness gate
    status_available,   \* the AtomicBool
    waiters,            \* Notify: the Notified futures waiting for notify_waiters
    \* ---- bridge_monitoring_task
    pc,                 \* position of the loop
    operator_statuses,  \* local Vec<OperatorStatus> of the current cycle
    chain_tip_height,   \* local, fetched once per cycle
    active_deposits,    \* local Vec<Txid>
    active_withdrawals, \* local Vec<Buf32>
    active_reimbursements,  \* local Vec<Txid>
    requests,           \* get_*: the identities to query (deposit_requests, ...)
    req_i,              \* get_*: position of the detail loop in requests
    updates,            \* get_*: the (info, confirmations) pushed so far
    \* ---- get_bridge_status, per reader
    rd_pc,              \* position of the call
    \* ---- history of the run, read by the properties only
    started_ready,      \* per reader: status_available when its current call started
    notify_count,       \* notify_waiters calls so far (counted up to 2)
    cycles_written,     \* cycles that finished all cache writes (counted up to 2)
    purge_log,          \* the purge step just taken: table before, explorer answers
    tip_log,            \* the chain-tip fetch just made: the explorer's answer
    fetch_log,          \* the detail queries of the get_* call of this cycle, in order
    apply_log,          \* the batch apply of this cycle's write block: table before
    upsert_log,         \* the update applied last to a table on its own (see SpecUpsert)
    answer_log          \* the operators' answers to the probes or list query just made

cfgvars == <<operators, world, readers, settled>>
qvars == <<q_pc, q_idx, attempt, q_result, calls, sleeps>>
cachevars == <<cache_operators, deposits, withdrawals, reimbursements>>
lockvars == <<write_locked, read_holders>>
gatevars == <<status_available, waiters>>
loopvars == <<pc, operator_statuses, chain_tip_height, active_deposits,
              active_withdrawals, active_reimbursements, requests, req_i, updates>>
rdvars == <<rd_pc, started_ready>>
histvars == <<notify_count, cycles_written, purge_log, tip_log, fetch_log, apply_log,
              upsert_log, answer_log>>
vars == <<cfgvars, qvars, cachevars, lockvars, gatevars, loopvars, rdvars, histvars>>

(***************************************************************************)
(* RpcClientManager::new: a BTreeMap keyed by public key.  Inserting a key *)
(* already present replaces its client, so the map holds each key once,    *)
(* and iteration is in ascending key order.                                *)
(***************************************************************************)
\* a Vec in place of the BTreeMap: configuration order, no replacement
BTreeInsertUnsorted(m, k) ==
    Append(m, k)

BTreeInsert(m, k) ==
    IF k \in SeqToSet(m) THEN m
    ELSE LET below == SelectSeq(m, LAMBDA x : x < k)
             above == SelectSeq(m, LAMBDA x : x > k)
         IN  below \o <<k>> \o above

RECURSIVE InsertAll(_, _)
InsertAll(m, config) ==
    IF config = <<>> THEN m
    ELSE InsertAll(BTreeInsert(m, Head(config)), Tail(config))

\* self.clients, as the sequence of keys in iteration order
RpcClientManager_new(config) == InsertAll(<<>>, config)

clients == RpcClientManager_new(operators)

(***************************************************************************)
(* query_clients_with_retry, with execute_with_retries inlined: one action *)
(* per invocation of operation() and one per backoff sleep.                *)
(***************************************************************************)
\* one invocation of operation() on operator `op`, and whether it returned Ok
Call(op, ok) == [op |-> op, ok |-> ok]

QueryIdle ==
    /\ q_pc = "idle"
    /\ q_idx = 0
    /\ attempt = 0
    /\ q_result = None
    /\ calls = <<>>
    /\ sleeps = 0

\* entering the `for` loop over self.clients
QueryStart ==
    /\ q_pc = "idle"
    /\ IF clients = <<>>
       THEN /\ q_pc' = "done"
            /\ q_idx' = 0
       ELSE /\ q_pc' = "call"
            /\ q_idx' = 1
    /\ attempt' = 0
    /\ q_result' = None
    /\ UNCHANGED <<calls, sleeps>>

\* no short-circuit: the result is kept and the next operator is queried too
AttemptOkKeepGoing ==
    /\ q_pc = "call"
    /\ calls' = Append(calls, Call(clients[q_idx], TRUE))
    /\ q_result' = Some(clients[q_idx])
    /\ IF q_idx < Len(clients)
       THEN /\ q_idx' = q_idx + 1
            /\ q_pc' = "call"
       ELSE /\ q_pc' = "done"
            /\ UNCHANGED q_idx
    /\ attempt' = 0
    /\ UNCHANGED <<sleeps>>

\* `Ok(result) => return Ok(result)` and then `return Some(result)`
AttemptOk ==
    /\ q_pc = "call"
    /\ calls' = Append(calls, Call(clients[q_idx], TRUE))
    /\ q_result' = Some(clients[q_idx])
    /\ q_pc' = "done"
    /\ UNCHANGED <<q_idx, attempt, sleeps>>

\* no failover: the first operator's Err ends the call
AttemptErrNoFailover ==
    /\ q_pc = "call"
    /\ calls' = Append(calls, Call(clients[q_idx], FALSE))
    /\ IF attempt < MaxRetries
       THEN /\ q_pc' = "sleep"
            /\ UNCHANGED <<q_idx, attempt>>
       ELSE /\ q_pc' = "done"
            /\ UNCHANGED <<q_idx, attempt>>
    /\ UNCHANGED <<q_result, sleeps>>

\* one retry too many: `attempt <= max_retries`
AttemptErrExtraRetry ==
    /\ q_pc = "call"
    /\ calls' = Append(calls, Call(clients[q_idx], FALSE))
    /\ IF attempt <= MaxRetries
       THEN /\ q_pc' = "sleep"
            /\ UNCHANGED <<q_idx, attempt>>
       ELSE IF q_idx < Len(clients)
            THEN /\ q_idx' = q_idx + 1
                 /\ attempt' = 0
                 /\ q_pc' = "call"
            ELSE /\ q_pc' = "done"
                 /\ UNCHANGED <<q_idx, attempt>>
    /\ UNCHANGED <<q_result, sleeps>>

\* the sleep is taken after every Err, the last one included
AttemptErrSleepsAfterLast ==
    /\ q_pc = "call"
    /\ calls' = Append(calls, Call(clients[q_idx], FALSE))
    /\ IF attempt < MaxRetries
       THEN /\ q_pc' = "sleep"
            /\ UNCHANGED <<q_idx, attempt, sleeps>>
       ELSE /\ sleeps' = sleeps + 1
            /\ IF q_idx < Len(clients)
               THEN /\ q_idx' = q_idx + 1
                    /\ attempt' = 0
                    /\ q_pc' = "call"
               ELSE /\ q_pc' = "done"
                    /\ UNCHANGED <<q_idx, attempt>>
    /\ UNCHANGED <<q_result>>

\* `Err(e)`: sleep and retry while attempt < max_retries; after the last
\* attempt execute_with_retries returns Err and the manager continues with
\* the next operator, or returns None after the last one
AttemptErr ==
    /\ q_pc = "call"
    /\ calls' = Append(calls, Call(clients[q_idx], FALSE))
    /\ IF attempt < MaxRetries
       THEN /\ q_pc' = "sleep"
            /\ UNCHANGED <<q_idx, attempt>>
       ELSE IF q_idx < Len(clients)
            THEN /\ q_idx' = q_idx + 1
                 /\ attempt' = 0
                 /\ q_pc' = "call"
            ELSE /\ q_pc' = "done"
                 /\ UNCHANGED <<q_idx, attempt>>
    /\ UNCHANGED <<q_result, sleeps>>

\* `sleep(Duration::from_secs(delay)).await`, then the next attempt
BackoffSleep ==
    /\ q_pc = "sleep"
    /\ sleeps' = sleeps + 1
    /\ attempt' = attempt + 1
    /\ q_pc' = "call"
    /\ UNCHANGED <<q_idx, q_result, calls>>

QueryStep ==
    \/ QueryStart
    \/ AttemptOk
    \/ AttemptErr
    \/ BackoffSleep

(***************************************************************************)
(* The summary of one query_clients_with_retry call inside the loop: resp  *)
(* gives, per operator key, what execute_with_retries ends with on that    *)
(* operator (Err, or Ok(v)); the result is the first Ok in the order of    *)
(* self.clients.                                                           *)
(***************************************************************************)
Err == <<>>
Ok(v) == <<v>>
IsOk(r) == Len(r) = 1

RECURSIVE FirstOk(_, _)
FirstOk(keys, resp) ==
    IF keys = <<>> THEN None
    ELSE IF IsOk(resp[Head(keys)]) THEN Some(Unwrap(resp[Head(keys)]))
    ELSE FirstOk(Tail(keys), resp)

query_clients_with_retry(resp) == FirstOk(clients, resp)

(***************************************************************************)
(* bridge/types.rs: statuses, the infos kept in the cache, and the         *)
(* conversions from the operators' RPC answers.                            *)
(***************************************************************************)
\* max_tx_confirmations of the configuration
MaxTxConfirmations == 2

\* identities per entity kind
MaxIds == 2
Ids == 1..MaxIds

\* the settlement transaction an operator reports for identity id
\* (deposit_txid, fulfillment_txid, payout_txid): distinct from every
\* request/claim txid
SettleTxid(id) == MaxIds + id

\* an operator's status answer: the variant, and the txid of `Complete { .. }`
RpcStatus(tag, txid) == [tag |-> tag, txid |-> txid]

RpcDepositInfos(id) ==
    {[deposit_request_txid |-> id, status |-> RpcStatus(t, None)] : t \in {"InProgress", "Failed"}}
    \cup {[deposit_request_txid |-> id, status |-> RpcStatus("Complete", Some(SettleTxid(id)))]}

RpcWithdrawalInfos(id) ==
    {[withdrawal_request_txid |-> id, status |-> RpcStatus("InProgress", None)],
     [withdrawal_request_txid |-> id, status |-> RpcStatus("Complete", Some(SettleTxid(id)))]}

RpcClaimInfos(id) ==
    {[claim_txid |-> id, status |-> RpcStatus(t, None)] :
        t \in {"NotStarted", "InProgress", "Challenged", "Cancelled"}}
    \cup {[claim_txid |-> id, status |-> RpcStatus("Complete", Some(SettleTxid(id)))]}

\* variant of DepositInfo_from: a Failed deposit carries its request txid as
\* deposit_txid
DepositInfo_fromFailedWithTxid(rpc_info) ==
    CASE rpc_info.status.tag = "InProgress" ->
            [deposit_request_txid |-> rpc_info.deposit_request_txid,
             deposit_txid |-> None, status |-> "InProgress"]
      [] rpc_info.status.tag = "Failed" ->
            [deposit_request_txid |-> rpc_info.deposit_request_txid,
             deposit_txid |-> Some(rpc_info.deposit_request_txid), status |-> "Failed"]
      [] rpc_info.status.tag = "Complete" ->
            [deposit_request_txid |-> rpc_info.deposit_request_txid,
             deposit_txid |-> Some(Unwrap(rpc_info.status.txid)), status |-> "Complete"]

\* impl From<&RpcDepositInfo> for DepositInfo
DepositInfo_from(rpc_info) ==
    CASE rpc_info.status.tag = "InProgress" ->
            [deposit_request_txid |-> rpc_info.deposit_request_txid,
             deposit_txid |-> None, status |-> "InProgress"]
      [] rpc_info.status.tag = "Failed" ->
            [deposit_request_txid |-> rpc_info.deposit_request_txid,
             deposit_txid |-> None, status |-> "Failed"]
      [] rpc_info.status.tag = "Complete" ->
            [deposit_request_txid |-> rpc_info.deposit_request_txid,
             deposit_txid |-> Some(Unwrap(rpc_info.status.txid)), status |-> "Complete"]

\* impl From<&RpcWithdrawalInfo> for WithdrawalInfo
WithdrawalInfo_from(rpc_info) ==
    CASE rpc_info.status.tag = "InProgress" ->
            [withdrawal_request_txid |-> rpc_info.withdrawal_request_txid,
             fulfillment_txid |-> None, status |-> "InProgress"]
      [] rpc_info.status.tag = "Complete" ->
            [withdrawal_request_txid |-> rpc_info.withdrawal_request_txid,
             fulfillment_txid |-> Some(Unwrap(rpc_info.status.txid)), status |-> "Complete"]

\* impl From<&RpcClaimInfo> for ReimbursementInfo
ReimbursementInfo_from(rpc_info) ==
    CASE rpc_info.status.tag = "NotStarted" ->
            [claim_txid |-> rpc_info.claim_txid, challenge_step |-> "N/A",
             payout_txid |-> None, status |-> "NotStarted"]
      [] rpc_info.status.tag = "InProgress" ->
            [claim_txid |-> rpc_info.claim_txid, challenge_step |-> "Claim",
             payout_txid |-> None, status |-> "InProgress"]
      [] rpc_info.status.tag = "Challenged" ->
            [claim_txid |-> rpc_info.claim_txid, challenge_step |-> "Challenge",
             payout_txid |-> None, status |-> "Challenged"]
      [] rpc_info.status.tag = "Cancelled" ->
            [claim_txid |-> rpc_info.claim_txid, challenge_step |-> "N/A",
             payout_txid |-> None, status |-> "Cancelled"]
      [] rpc_info.status.tag = "Complete" ->
            [claim_txid |-> rpc_info.claim_txid, challenge_step |-> "N/A",
             payout_txid |-> Some(Unwrap(rpc_info.status.txid)), status |-> "Complete"]

(***************************************************************************)
(* bridge/cache.rs.  A table is a function from its keys to CacheEntry     *)
(* records.  SystemTime::now() is the parameter `now`.                     *)
(***************************************************************************)
CacheEntry_new(data, confirmations, now) ==
    [data |-> data, confirmations |-> confirmations, last_updated |-> now]

\* variant of CacheEntry_update: the confirmations are added to the count
\* the entry holds
CacheEntry_updateAdds(entry, data, confirmations, now) ==
    [entry EXCEPT !.data = data, !.confirmations = entry.confirmations + confirmations,
                  !.last_updated = now]

CacheEntry_update(entry, data, confirmations, now) ==
    [entry EXCEPT !.data = data, !.confirmations = confirmations, !.last_updated = now]

\* the HashMap with key k bound to entry e
MapPut(table, k, e) ==
    [x \in DOMAIN table \cup {k} |-> IF x = k THEN e ELSE table[x]]

\* HashMap::remove
MapRemove(table, k) ==
    [x \in DOMAIN table \ {k} |-> table[x]]

EmptyMap == [x \in {} |-> None]

\* variant of update_entry: an entry cached with a terminal status is left
\* as it is
update_entryKeepsTerminal(table, key, info, confirmations, now) ==
    IF key \in DOMAIN table
    THEN IF table[key].data.status \in {"Complete", "Failed", "Cancelled"}
         THEN table
         ELSE MapPut(table, key, CacheEntry_update(table[key], info, confirmations, now))
    ELSE MapPut(table, key, CacheEntry_new(info, confirmations, now))

update_entry(table, key, info, confirmations, now) ==
    IF key \in DOMAIN table
    THEN MapPut(table, key, CacheEntry_update(table[key], info, confirmations, now))
    ELSE MapPut(table, key, CacheEntry_new(info, confirmations, now))

update_deposit(table, txid, info, confirmations, now) ==
    update_entry(table, txid, info, confirmations, now)

update_withdrawal(table, request_id, info, confirmations, now) ==
    update_entry(table, request_id, info, confirmations, now)

update_reimbursement(table, txid, info, confirmations, now) ==
    update_entry(table, txid, info, confirmations, now)

\* the loop does not read last_updated; the wall clock is not part of its state
Now == 0

RECURSIVE apply_deposit_updates(_, _)

\* updates: a sequence of <<key, info, confirmations>>
apply_deposit_updates(table, upd) ==
    IF upd = <<>> THEN table
    ELSE apply_deposit_updates(
            update_deposit(table, Head(upd)[1], Head(upd)[2], Head(upd)[3], Now), Tail(upd))

RECURSIVE apply_withdrawal_updates(_, _)
apply_withdrawal_updates(table, upd) ==
    IF upd = <<>> THEN table
    ELSE apply_withdrawal_updates(
            update_withdrawal(table, Head(upd)[1], Head(upd)[2], Head(upd)[3], Now), Tail(upd))

RECURSIVE apply_reimbursement_updates(_, _)
apply_reimbursement_updates(table, upd) ==
    IF upd = <<>> THEN table
    ELSE apply_reimbursement_updates(
            update_reimbursement(table, Head(upd)[1], Head(upd)[2], Head(upd)[3], Now), Tail(upd))

\* filter_deposits / filter_withdrawals / filter_reimbursements: the keys of
\* the entries whose status is in `statuses` (the closure's matches!), as a
\* set: the HashMap iterates in no particular order
filter_keys(table, statuses) ==
    {k \in DOMAIN table : table[k].data.status \in statuses}

RECURSIVE purge_keys(_, _)
\* purge_deposits / purge_withdrawals / purge_reimbursements
purge_keys(table, to_purge) ==
    IF to_purge = {} THEN table
    ELSE LET k == CHOOSE x \in to_purge : TRUE
         IN  purge_keys(MapRemove(table, k), to_purge \ {k})

filter_deposits(table, statuses) == filter_keys(table, statuses)
filter_withdrawals(table, statuses) == filter_keys(table, statuses)
filter_reimbursements(table, statuses) == filter_keys(table, statuses)

purge_deposits(table, to_purge) == purge_keys(table, to_purge)
purge_withdrawals(table, to_purge) == purge_keys(table, to_purge)
purge_reimbursements(table, to_purge) == purge_keys(table, to_purge)

(***************************************************************************)
(* The explorer.  A TxStatus answer is Err (the request or the JSON parse  *)
(* failed) or Ok of {confirmed, block_height}.                             *)
(***************************************************************************)
\* the chain-tip heights and block heights of the runs: together they give
\* every confirmation count from 1 to MaxTxConfirmations + 1
ChainTips == 1..MaxTxConfirmations
BlockHeights == {0, 1, MaxTxConfirmations + 1}

TxStatus(confirmed, block_height) == [confirmed |-> confirmed, block_height |-> block_height]

\* every answer to `GET /tx/{id}/status`
TxResponses ==
    {Err} \cup {Ok(TxStatus(c, bh)) : c \in BOOLEAN, bh \in {None} \cup {Some(h) : h \in BlockHeights}}

\* the answers the explorer gives in the loop's runs: a failure, an
\* unconfirmed transaction, a transaction confirmed in a block
LoopTxResponses ==
    {Err, Ok(TxStatus(FALSE, None))} \cup {Ok(TxStatus(TRUE, Some(h))) : h \in BlockHeights}

\* u64::saturating_sub
SaturatingSub(a, b) == IF a >= b THEN a - b ELSE 0

\* get_tx_confirmations on the explorer's answer tx_resp
get_tx_confirmations(tx_resp, tip) ==
    IF ~IsOk(tx_resp) THEN None
    ELSE LET status == Unwrap(tx_resp)
         IN  IF IsSome(status.block_height) /\ status.confirmed
             THEN Some(SaturatingSub(tip, Unwrap(status.block_height)) + 1)
             ELSE None

(***************************************************************************)
(* determine_*_to_purge: txs gives the explorer's answer per txid in this  *)
(* step.                                                                   *)
(***************************************************************************)
DepositTerminal == {"Complete", "Failed"}
WithdrawalTerminal == {"Complete"}
ReimbursementTerminal == {"Complete", "Cancelled"}

\* Option::unwrap_or
UnwrapOr(o, d) == IF IsSome(o) THEN Unwrap(o) ELSE d

deposit_check_txid(info) ==
    IF info.status = "Failed" THEN info.deposit_request_txid
    ELSE UnwrapOr(info.deposit_txid, info.deposit_request_txid)

reimbursement_check_txid(info) ==
    IF info.status = "Cancelled" THEN info.claim_txid
    ELSE UnwrapOr(info.payout_txid, info.claim_txid)

\* variant of ReachedMax: purges strictly above the maximum only
ReachedMaxStrict(conf) == IsSome(conf) /\ Unwrap(conf) > MaxTxConfirmations

\* `confirmations >= max_confirmations` on an Option<u64>
ReachedMax(conf) == IsSome(conf) /\ Unwrap(conf) >= MaxTxConfirmations

\* variant of BelowMax: a count equal to the maximum passes too
BelowMaxInclusive(conf) == IsSome(conf) /\ Unwrap(conf) <= MaxTxConfirmations

\* `confirmations < config.max_tx_confirmations()` on an Option<u64>
BelowMax(conf) == IsSome(conf) /\ Unwrap(conf) < MaxTxConfirmations

determine_deposits_to_purge(table, tip, txs) ==
    {txid \in filter_deposits(table, DepositTerminal) :
        ReachedMax(get_tx_confirmations(txs[deposit_check_txid(table[txid].data)], tip))}

determine_withdrawals_to_purge(table, tip, txs) ==
    {request_id \in filter_withdrawals(table, WithdrawalTerminal) :
        /\ IsSome(table[request_id].data.fulfillment_txid)
        /\ ReachedMax(get_tx_confirmations(
                        txs[Unwrap(table[request_id].data.fulfillment_txid)], tip))}

determine_reimbursements_to_purge(table, tip, txs) ==
    {txid \in filter_reimbursements(table, ReimbursementTerminal) :
        ReachedMax(get_tx_confirmations(txs[reimbursement_check_txid(table[txid].data)], tip))}

\* the txids a purge step asks the explorer about
DepositCheckTxids(table) ==
    {deposit_check_txid(table[k].data) : k \in filter_deposits(table, DepositTerminal)}

WithdrawalCheckTxids(table) ==
    {Unwrap(table[k].data.fulfillment_txid) :
        k \in {x \in filter_withdrawals(table, WithdrawalTerminal) :
                    IsSome(table[x].data.fulfillment_txid)}}

ReimbursementCheckTxids(table) ==
    {reimbursement_check_txid(table[k].data) :
        k \in filter_reimbursements(table, ReimbursementTerminal)}

(***************************************************************************)
(* get_deposits / get_withdrawals / get_reimbursements: the union of the   *)
(* listed and the active identities, and the classification of one detail. *)
(***************************************************************************)
\* variant of AddActive: the identities to query are the listed ones only
AddActiveNone(reqs, active) == reqs

RECURSIVE AddActive(_, _)
\* `for txid in active { if !requests.contains(txid) { requests.push(*txid) } }`
AddActive(reqs, active) ==
    IF active = <<>> THEN reqs
    ELSE AddActive(IF Head(active) \in SeqToSet(reqs) THEN reqs ELSE Append(reqs, Head(active)),
                   Tail(active))

\* Option::unwrap_or_else(|| Vec::new()) of the list query
get_requests(list_result) == UnwrapOr(list_result, <<>>)

\* variant of classify_deposit: a terminal deposit below the maximum is
\* pushed without its count
classify_depositDropsCount(dep_info, tx_resp, tip) ==
    IF dep_info.status.tag = "InProgress"
    THEN <<<<DepositInfo_from(dep_info), 0>>>>
    ELSE LET confirmations == get_tx_confirmations(tx_resp, tip)
         IN  IF BelowMax(confirmations)
             THEN <<<<DepositInfo_from(dep_info), 0>>>>
             ELSE <<>>

\* the pushes of one deposit detail: a sequence of <<info, confirmations>>
classify_deposit(dep_info, tx_resp, tip) ==
    IF dep_info.status.tag = "InProgress"
    THEN <<<<DepositInfo_from(dep_info), 0>>>>
    ELSE LET confirmations == get_tx_confirmations(tx_resp, tip)
         IN  IF BelowMax(confirmations)
             THEN <<<<DepositInfo_from(dep_info), Unwrap(confirmations)>>>>
             ELSE <<>>

\* variant of classify_withdrawal: an InProgress withdrawal is pushed with
\* the count the explorer gives, when it gives one
classify_withdrawalCountsInProgress(wd_info, tx_resp, tip) ==
    LET confirmations == get_tx_confirmations(tx_resp, tip)
    IN  IF wd_info.status.tag = "InProgress"
        THEN <<<<WithdrawalInfo_from(wd_info), UnwrapOr(confirmations, 0)>>>>
        ELSE IF BelowMax(confirmations)
             THEN <<<<WithdrawalInfo_from(wd_info), Unwrap(confirmations)>>>>
             ELSE <<>>

classify_withdrawal(wd_info, tx_resp, tip) ==
    IF wd_info.status.tag = "InProgress"
    THEN <<<<WithdrawalInfo_from(wd_info), 0>>>>
    ELSE LET confirmations == get_tx_confirmations(tx_resp, tip)
         IN  IF BelowMax(confirmations)
             THEN <<<<WithdrawalInfo_from(wd_info), Unwrap(confirmations)>>>>
             ELSE <<>>

\* variant of classify_reimbursement: a terminal claim is pushed with its
\* count whatever the count
classify_reimbursementUnfiltered(claim_info, tx_resp, tip) ==
    IF claim_info.status.tag = "NotStarted" THEN <<>>
    ELSE IF claim_info.status.tag \in {"InProgress", "Challenged"}
    THEN <<<<ReimbursementInfo_from(claim_info), 0>>>>
    ELSE LET confirmations == get_tx_confirmations(tx_resp, tip)
         IN  IF IsSome(confirmations)
             THEN <<<<ReimbursementInfo_from(claim_info), Unwrap(confirmations)>>>>
             ELSE <<>>

\* variant of classify_reimbursement: a NotStarted claim is pushed like an
\* InProgress one
classify_reimbursementAdmitsNotStarted(claim_info, tx_resp, tip) ==
    IF claim_info.status.tag \in {"NotStarted", "InProgress", "Challenged"}
    THEN <<<<ReimbursementInfo_from(claim_info), 0>>>>
    ELSE LET confirmations == get_tx_confirmations(tx_resp, tip)
         IN  IF BelowMax(confirmations)
             THEN <<<<ReimbursementInfo_from(claim_info), Unwrap(confirmations)>>>>
             ELSE <<>>

classify_reimbursement(claim_info, tx_resp, tip) ==
    IF claim_info.status.tag = "NotStarted" THEN <<>>
    ELSE IF claim_info.status.tag \in {"InProgress", "Challenged"}
    THEN <<<<ReimbursementInfo_from(claim_info), 0>>>>
    ELSE LET confirmations == get_tx_confirmations(tx_resp, tip)
         IN  IF BelowMax(confirmations)
             THEN <<<<ReimbursementInfo_from(claim_info), Unwrap(confirmations)>>>>
             ELSE <<>>

\* variant of detail_operation: an answer without info is passed on as a
\* success
detail_operationAcceptsNone(raw) ==
    IF IsOk(raw) THEN Ok(Unwrap(raw)) ELSE Err

\* the closure of the withdrawal and claim detail queries:
\* Ok(Some(info)) => Ok(info), Ok(None) => Err, Err(e) => Err
detail_operation(raw) ==
    IF IsOk(raw) /\ IsSome(Unwrap(raw)) THEN Ok(Unwrap(Unwrap(raw))) ELSE Err

\* variant of KeyedBy: an update is keyed by its position in the batch
KeyedByPosition(infos, field) ==
    [i \in 1..Len(infos) |-> <<i, infos[i][1], infos[i][2]>>]

\* `.map(|(info, confirmations)| (info.deposit_request_txid, *info, *confirmations))`
RECURSIVE KeyedBy(_, _)
KeyedBy(infos, field) ==
    IF infos = <<>> THEN <<>>
    ELSE <<<<Head(infos)[1][field], Head(infos)[1], Head(infos)[2]>>>> \o KeyedBy(Tail(infos), field)

\* the orders a HashMap may iterate a key set in
Orders(S) == {s \in SeqsUpTo(S, Cardinality(S)) : Len(s) = Cardinality(S) /\ SeqToSet(s) = S}

\* the answers of the operators to one query: per client, Err or Ok of a value
Responses(values) == [SeqToSet(clients) -> {Err} \cup {Ok(v) : v \in values}]

(***************************************************************************)
(* bridge_monitoring_task.  Each action is the code between two suspension *)
(* points; the answers of the operators and of the explorer are its        *)
(* parameters.                                                             *)
(***************************************************************************)
\* the RwLock grants the write guard when no guard is held
WriteLockFree == ~write_locked /\ read_holders = {}

Bump(n) == IF n < 2 THEN n + 1 ELSE n

\* get_operator_status on the outcome of get_uptime
get_operator_status(uptime) == IF IsOk(uptime) THEN "Online" ELSE "Offline"

\* the probes of one cycle, one per configured operator in configuration
\* order; uptimes[i] is what get_uptime returned for operator i
ProbeOperators(uptimes) ==
    /\ pc = "probe"
    /\ operator_statuses' =
            [i \in 1..Len(operators) |->
                [operator_id |-> i, operator_pk |-> operators[i],
                 status |-> get_operator_status(uptimes[i])]]
    /\ pc' = "update_operators"
    /\ purge_log' = None
    /\ tip_log' = None
    /\ fetch_log' = <<>>
    /\ apply_log' = None
    /\ answer_log' = Some([of |-> "probe", answers |-> uptimes])
    /\ UNCHANGED <<cfgvars, qvars, upsert_log, cachevars, lockvars, gatevars, chain_tip_height,
                   active_deposits, active_withdrawals, active_reimbursements,
                   requests, req_i, updates, rdvars, notify_count, cycles_written>>

\* variant of UpdateOperators: only the operators that answered the probe
\* are stored
UpdateOperatorsDropsOffline ==
    /\ pc = "update_operators"
    /\ WriteLockFree
    /\ cache_operators' = SelectSeq(operator_statuses, LAMBDA o : o.status = "Online")
    /\ operator_statuses' = <<>>
    /\ pc' = "chain_tip"
    /\ purge_log' = None
    /\ tip_log' = None
    /\ fetch_log' = <<>>
    /\ apply_log' = None
    /\ answer_log' = None
    /\ UNCHANGED <<cfgvars, qvars, upsert_log, deposits, withdrawals, reimbursements, lockvars,
                   gatevars, chain_tip_height, active_deposits, active_withdrawals,
                   active_reimbursements, requests, req_i, updates, rdvars,
                   notify_count, cycles_written>>

\* `cache.update_operators(operator_statuses)` under the write lock
UpdateOperators ==
    /\ pc = "update_operators"
    /\ WriteLockFree
    /\ cache_operators' = operator_statuses
    /\ operator_statuses' = <<>>
    /\ pc' = "chain_tip"
    /\ purge_log' = None
    /\ tip_log' = None
    /\ fetch_log' = <<>>
    /\ apply_log' = None
    /\ answer_log' = None
    /\ UNCHANGED <<cfgvars, qvars, upsert_log, deposits, withdrawals, reimbursements, lockvars,
                   gatevars, chain_tip_height, active_deposits, active_withdrawals,
                   active_reimbursements, requests, req_i, updates, rdvars,
                   notify_count, cycles_written>>

\* variant of ChainTip: a failed fetch ends the task
ChainTipFatal(tip_resp) ==
    /\ pc = "chain_tip"
    /\ IF IsOk(tip_resp)
       THEN /\ chain_tip_height' = Unwrap(tip_resp)
            /\ pc' = "read_active"
       ELSE /\ pc' = "returned"
            /\ UNCHANGED chain_tip_height
    /\ purge_log' = None
    /\ tip_log' = Some(tip_resp)
    /\ fetch_log' = <<>>
    /\ apply_log' = None
    /\ answer_log' = None
    /\ UNCHANGED <<cfgvars, qvars, upsert_log, cachevars, lockvars, gatevars, operator_statuses,
                   active_deposits, active_withdrawals, active_reimbursements,
                   requests, req_i, updates, rdvars, notify_count, cycles_written>>

\* variant of ChainTip: after a failed fetch the cycle goes on with the
\* height of the cycle before
ChainTipKeepsGoing(tip_resp) ==
    /\ pc = "chain_tip"
    /\ chain_tip_height' = IF IsOk(tip_resp) THEN Unwrap(tip_resp) ELSE chain_tip_height
    /\ pc' = "read_active"
    /\ purge_log' = None
    /\ tip_log' = Some(tip_resp)
    /\ fetch_log' = <<>>
    /\ apply_log' = None
    /\ answer_log' = None
    /\ UNCHANGED <<cfgvars, qvars, upsert_log, cachevars, lockvars, gatevars,
                   operator_statuses, active_deposits, active_withdrawals,
                   active_reimbursements, requests, req_i, updates, rdvars, notify_count,
                   cycles_written>>

\* get_bitcoin_chain_tip_height: Err => `continue`, Ok(height) => go on
ChainTip(tip_resp) ==
    /\ pc = "chain_tip"
    /\ IF IsOk(tip_resp)
       THEN /\ chain_tip_height' = Unwrap(tip_resp)
            /\ pc' = "read_active"
       ELSE /\ pc' = "probe"
            /\ UNCHANGED chain_tip_height
    /\ purge_log' = None
    /\ tip_log' = Some(tip_resp)
    /\ fetch_log' = <<>>
    /\ apply_log' = None
    /\ answer_log' = None
    /\ UNCHANGED <<cfgvars, qvars, upsert_log, cachevars, lockvars, gatevars, operator_statuses,
                   active_deposits, active_withdrawals, active_reimbursements,
                   requests, req_i, updates, rdvars, notify_count, cycles_written>>

\* the active identities, read under the read lock
ReadActive(dep_order, wd_order, rb_order) ==
    /\ pc = "read_active"
    /\ ~write_locked
    /\ dep_order \in Orders(filter_deposits(deposits, {"InProgress"}))
    /\ wd_order \in Orders(filter_withdrawals(withdrawals, {"InProgress"}))
    /\ rb_order \in Orders(filter_reimbursements(reimbursements, {"InProgress", "Challenged"}))
    /\ active_deposits' = dep_order
    /\ active_withdrawals' = wd_order
    /\ active_reimbursements' = rb_order
    /\ pc' = "dep_list"
    /\ purge_log' = None
    /\ tip_log' = None
    /\ fetch_log' = <<>>
    /\ apply_log' = None
    /\ answer_log' = None
    /\ UNCHANGED <<cfgvars, qvars, upsert_log, cachevars, lockvars, gatevars, operator_statuses,
                   chain_tip_height, requests, req_i, updates, rdvars, notify_count,
                   cycles_written>>

\* the head of get_deposits / get_withdrawals / get_reimbursements: the list
\* query and the union with the active identities
FetchList(at, active, resp, detail_pc, apply_pc) ==
    /\ pc = at
    /\ requests' = AddActive(get_requests(query_clients_with_retry(resp)), active)
    /\ req_i' = 1
    /\ updates' = <<>>
    /\ pc' = IF requests' = <<>> THEN apply_pc ELSE detail_pc
    /\ purge_log' = None
    /\ tip_log' = None
    /\ fetch_log' = <<>>
    /\ apply_log' = None
    /\ answer_log' = Some([of |-> "list", answers |-> resp])
    /\ UNCHANGED <<cfgvars, qvars, upsert_log, cachevars, lockvars, gatevars, operator_statuses,
                   chain_tip_height, active_deposits, active_withdrawals,
                   active_reimbursements, rdvars, notify_count, cycles_written>>

FetchDepositList(resp) ==
    FetchList("dep_list", active_deposits, resp, "dep_detail", "dep_apply")

FetchWithdrawalList(resp) ==
    FetchList("wd_list", active_withdrawals, resp, "wd_detail", "wd_apply")

FetchClaimList(resp) ==
    FetchList("rb_list", active_reimbursements, resp, "rb_detail", "rb_apply")

\* the statuses for which the get_* functions ask the explorer
ExplorerConsulted == {"Complete", "Failed", "Cancelled"}

\* the record of one pass of the detail loop: the identity queried, what
\* query_clients_with_retry returned, and the explorer's answer when the
\* pass asked the explorer
DetailRecord(rpc_info, tx_resp) ==
    [id |-> requests[req_i],
     info |-> rpc_info,
     tx |-> IF IsSome(rpc_info) /\ Unwrap(rpc_info).status.tag \in ExplorerConsulted
            THEN Some(tx_resp) ELSE None]

\* the identities for which every detail query of the log went unanswered
\* by every operator
Unanswered(log) ==
    {log[i].id : i \in 1..Len(log)} \ {log[i].id : i \in {j \in 1..Len(log) : IsSome(log[j].info)}}

\* one pass of the detail loop: pushes is what the pass appends to the infos
FetchDetail(at, rec, pushes, apply_pc) ==
    /\ pc = at
    /\ updates' = updates \o pushes
    /\ req_i' = req_i + 1
    /\ pc' = IF req_i = Len(requests) THEN apply_pc ELSE at
    /\ purge_log' = None
    /\ tip_log' = None
    /\ fetch_log' = Append(fetch_log, rec)
    /\ apply_log' = None
    /\ answer_log' = None
    /\ UNCHANGED <<cfgvars, qvars, upsert_log, cachevars, lockvars, gatevars, operator_statuses,
                   chain_tip_height, active_deposits, active_withdrawals,
                   active_reimbursements, requests, rdvars, notify_count, cycles_written>>

\* variant of FetchDepositDetail: a deposit no operator answered for is
\* recorded as Failed
FetchDepositDetailMarksFailed(resp, tx_resp) ==
    LET rpc_info == query_clients_with_retry(resp)
    IN  FetchDetail("dep_detail", DetailRecord(rpc_info, tx_resp),
            IF IsSome(rpc_info)
            THEN classify_deposit(Unwrap(rpc_info), tx_resp, chain_tip_height)
            ELSE <<<<[deposit_request_txid |-> requests[req_i], deposit_txid |-> None,
                      status |-> "Failed"], 0>>>>,
            "dep_apply")

\* variant of FetchDepositDetail: when no operator answers for one deposit
\* the function gives up with an empty batch
FetchDepositDetailAborts(resp, tx_resp) ==
    LET rpc_info == query_clients_with_retry(resp)
    IN  IF IsSome(rpc_info)
        THEN FetchDetail("dep_detail", DetailRecord(rpc_info, tx_resp),
                classify_deposit(Unwrap(rpc_info), tx_resp, chain_tip_height), "dep_apply")
        ELSE /\ pc = "dep_detail"
             /\ updates' = <<>>
             /\ req_i' = Len(requests) + 1
             /\ pc' = "dep_apply"
             /\ purge_log' = None
             /\ tip_log' = None
             /\ fetch_log' = Append(fetch_log, DetailRecord(rpc_info, tx_resp))
             /\ apply_log' = None
             /\ answer_log' = None
             /\ UNCHANGED <<cfgvars, qvars, upsert_log, cachevars, lockvars, gatevars,
                            operator_statuses, chain_tip_height, active_deposits,
                            active_withdrawals, active_reimbursements, requests, rdvars,
                            notify_count, cycles_written>>

FetchDepositDetail(resp, tx_resp) ==
    LET rpc_info == query_clients_with_retry(resp)
    IN  FetchDetail("dep_detail", DetailRecord(rpc_info, tx_resp),
            IF IsSome(rpc_info)
            THEN classify_deposit(Unwrap(rpc_info), tx_resp, chain_tip_height)
            ELSE <<>>,
            "dep_apply")

FetchWithdrawalDetail(raw, tx_resp) ==
    LET rpc_info == query_clients_with_retry([k \in DOMAIN raw |-> detail_operation(raw[k])])
    IN  FetchDetail("wd_detail", DetailRecord(rpc_info, tx_resp),
            IF IsSome(rpc_info)
            THEN classify_withdrawal(Unwrap(rpc_info), tx_resp, chain_tip_height)
            ELSE <<>>,
            "wd_apply")

FetchClaimDetail(raw, tx_resp) ==
    LET rpc_info == query_clients_with_retry([k \in DOMAIN raw |-> detail_operation(raw[k])])
    IN  FetchDetail("rb_detail", DetailRecord(rpc_info, tx_resp),
            IF IsSome(rpc_info)
            THEN classify_reimbursement(Unwrap(rpc_info), tx_resp, chain_tip_height)
            ELSE <<>>,
            "rb_apply")

\* variant of ApplyDeposits: the table is rebuilt from the batch instead of
\* being upserted into
ApplyDepositsRebuild ==
    /\ pc = "dep_apply"
    /\ WriteLockFree
    /\ write_locked' = TRUE
    /\ deposits' = apply_deposit_updates(EmptyMap, KeyedBy(updates, "deposit_request_txid"))
    /\ updates' = <<>>
    /\ requests' = <<>>
    /\ req_i' = 0
    /\ pc' = "dep_purge"
    /\ purge_log' = None
    /\ tip_log' = None
    /\ apply_log' = Some([kind |-> "deposits", before |-> deposits,
                          unanswered |-> Unanswered(fetch_log)])
    /\ answer_log' = None
    /\ UNCHANGED <<cfgvars, qvars, upsert_log, fetch_log, cache_operators, withdrawals, reimbursements,
                   read_holders, gatevars, operator_statuses, chain_tip_height,
                   active_deposits, active_withdrawals, active_reimbursements, rdvars,
                   notify_count, cycles_written>>

\* `let mut cache = context.status_cache.write().await; cache.apply_*_updates(..)`
\* variant of ApplyDeposits: the write guard is dropped right after the
\* batch apply, before the purge
ApplyDepositsDropsGuard ==
    /\ pc = "dep_apply"
    /\ WriteLockFree
    /\ write_locked' = FALSE
    /\ deposits' = apply_deposit_updates(deposits, KeyedBy(updates, "deposit_request_txid"))
    /\ updates' = <<>>
    /\ requests' = <<>>
    /\ req_i' = 0
    /\ pc' = "dep_purge"
    /\ purge_log' = None
    /\ tip_log' = None
    /\ apply_log' = Some([kind |-> "deposits", before |-> deposits,
                          unanswered |-> Unanswered(fetch_log)])
    /\ answer_log' = None
    /\ UNCHANGED <<cfgvars, qvars, upsert_log, fetch_log, cache_operators, withdrawals,
                   reimbursements, read_holders, gatevars, operator_statuses,
                   chain_tip_height, active_deposits, active_withdrawals,
                   active_reimbursements, rdvars, notify_count, cycles_written>>

ApplyDeposits ==
    /\ pc = "dep_apply"
    /\ WriteLockFree
    /\ write_locked' = TRUE
    /\ deposits' = apply_deposit_updates(deposits, KeyedBy(updates, "deposit_request_txid"))
    /\ updates' = <<>>
    /\ requests' = <<>>
    /\ req_i' = 0
    /\ pc' = "dep_purge"
    /\ purge_log' = None
    /\ tip_log' = None
    /\ apply_log' = Some([kind |-> "deposits", before |-> deposits,
                          unanswered |-> Unanswered(fetch_log)])
    /\ answer_log' = None
    /\ UNCHANGED <<cfgvars, qvars, upsert_log, fetch_log, cache_operators, withdrawals, reimbursements,
                   read_holders, gatevars, operator_statuses, chain_tip_height,
                   active_deposits, active_withdrawals, active_reimbursements, rdvars,
                   notify_count, cycles_written>>

\* variant of ApplyWithdrawals: the block ends after the batch apply, with
\* no purge of the withdrawals table
ApplyWithdrawalsSkipsPurge ==
    /\ pc = "wd_apply"
    /\ WriteLockFree
    /\ withdrawals' =
            apply_withdrawal_updates(withdrawals, KeyedBy(updates, "withdrawal_request_txid"))
    /\ updates' = <<>>
    /\ requests' = <<>>
    /\ req_i' = 0
    /\ pc' = "rb_list"
    /\ purge_log' = None
    /\ tip_log' = None
    /\ fetch_log' = <<>>
    /\ apply_log' = None
    /\ answer_log' = None
    /\ UNCHANGED <<cfgvars, qvars, upsert_log, cache_operators, deposits, reimbursements,
                   lockvars, gatevars, operator_statuses, chain_tip_height,
                   active_deposits, active_withdrawals, active_reimbursements, rdvars,
                   notify_count, cycles_written>>

ApplyWithdrawals ==
    /\ pc = "wd_apply"
    /\ WriteLockFree
    /\ write_locked' = TRUE
    /\ withdrawals' =
            apply_withdrawal_updates(withdrawals, KeyedBy(updates, "withdrawal_request_txid"))
    /\ updates' = <<>>
    /\ requests' = <<>>
    /\ req_i' = 0
    /\ pc' = "wd_purge"
    /\ purge_log' = None
    /\ tip_log' = None
    /\ apply_log' = Some([kind |-> "withdrawals", before |-> withdrawals,
                          unanswered |-> Unanswered(fetch_log)])
    /\ answer_log' = None
    /\ UNCHANGED <<cfgvars, qvars, upsert_log, fetch_log, cache_operators, deposits, reimbursements,
                   read_holders, gatevars, operator_statuses, chain_tip_height,
                   active_deposits, active_withdrawals, active_reimbursements, rdvars,
                   notify_count, cycles_written>>

\* variant of ApplyReimbursements: the batch apply also empties the
\* operators table
ApplyReimbursementsResetsOperators ==
    /\ pc = "rb_apply"
    /\ WriteLockFree
    /\ write_locked' = TRUE
    /\ reimbursements' = apply_reimbursement_updates(reimbursements, KeyedBy(updates, "claim_txid"))
    /\ cache_operators' = <<>>
    /\ updates' = <<>>
    /\ requests' = <<>>
    /\ req_i' = 0
    /\ pc' = "rb_purge"
    /\ purge_log' = None
    /\ tip_log' = None
    /\ apply_log' = Some([kind |-> "reimbursements", before |-> reimbursements,
                          unanswered |-> Unanswered(fetch_log)])
    /\ answer_log' = None
    /\ UNCHANGED <<cfgvars, qvars, upsert_log, fetch_log, deposits, withdrawals,
                   read_holders, gatevars, operator_statuses, chain_tip_height,
                   active_deposits, active_withdrawals, active_reimbursements, rdvars,
                   notify_count, cycles_written>>

ApplyReimbursements ==
    /\ pc = "rb_apply"
    /\ WriteLockFree
    /\ write_locked' = TRUE
    /\ reimbursements' = apply_reimbursement_updates(reimbursements, KeyedBy(updates, "claim_txid"))
    /\ updates' = <<>>
    /\ requests' = <<>>
    /\ req_i' = 0
    /\ pc' = "rb_purge"
    /\ purge_log' = None
    /\ tip_log' = None
    /\ apply_log' = Some([kind |-> "reimbursements", before |-> reimbursements,
                          unanswered |-> Unanswered(fetch_log)])
    /\ answer_log' = None
    /\ UNCHANGED <<cfgvars, qvars, upsert_log, fetch_log, cache_operators, deposits, withdrawals,
                   read_holders, gatevars, operator_statuses, chain_tip_height,
                   active_deposits, active_withdrawals, active_reimbursements, rdvars,
                   notify_count, cycles_written>>

\* variant of PurgeDeposits: the purge measures against a tip one block
\* above the height the cycle fetched
PurgeDepositsNewTip(txs) ==
    /\ pc = "dep_purge"
    /\ deposits' = purge_deposits(deposits,
                        determine_deposits_to_purge(deposits, chain_tip_height + 1, txs))
    /\ write_locked' = FALSE
    /\ pc' = "wd_list"
    /\ purge_log' = Some([kind |-> "deposits", before |-> deposits, txs |-> txs])
    /\ tip_log' = None
    /\ fetch_log' = <<>>
    /\ answer_log' = None
    /\ UNCHANGED <<cfgvars, qvars, upsert_log, apply_log, cache_operators, withdrawals,
                   reimbursements, read_holders, gatevars, operator_statuses,
                   chain_tip_height, active_deposits, active_withdrawals,
                   active_reimbursements, requests, req_i, updates, rdvars, notify_count,
                   cycles_written>>

\* determine_*_to_purge (the explorer answers txs), cache.purge_*, and the
\* end of the block that holds the write guard
PurgeDeposits(txs) ==
    /\ pc = "dep_purge"
    /\ deposits' = purge_deposits(deposits,
                        determine_deposits_to_purge(deposits, chain_tip_height, txs))
    /\ write_locked' = FALSE
    /\ pc' = "wd_list"
    /\ purge_log' = Some([kind |-> "deposits", before |-> deposits, txs |-> txs])
    /\ tip_log' = None
    /\ fetch_log' = <<>>
    /\ answer_log' = None
    /\ UNCHANGED <<cfgvars, qvars, upsert_log, apply_log, cache_operators, withdrawals, reimbursements,
                   read_holders, gatevars, operator_statuses, chain_tip_height,
                   active_deposits, active_withdrawals, active_reimbursements,
                   requests, req_i, updates, rdvars, notify_count, cycles_written>>

PurgeWithdrawals(txs) ==
    /\ pc = "wd_purge"
    /\ withdrawals' = purge_withdrawals(withdrawals,
                        determine_withdrawals_to_purge(withdrawals, chain_tip_height, txs))
    /\ write_locked' = FALSE
    /\ pc' = "rb_list"
    /\ purge_log' = Some([kind |-> "withdrawals", before |-> withdrawals, txs |-> txs])
    /\ tip_log' = None
    /\ fetch_log' = <<>>
    /\ answer_log' = None
    /\ UNCHANGED <<cfgvars, qvars, upsert_log, apply_log, cache_operators, deposits, reimbursements,
                   read_holders, gatevars, operator_statuses, chain_tip_height,
                   active_deposits, active_withdrawals, active_reimbursements,
                   requests, req_i, updates, rdvars, notify_count, cycles_written>>

PurgeReimbursements(txs) ==
    /\ pc = "rb_purge"
    /\ reimbursements' = purge_reimbursements(reimbursements,
                        determine_reimbursements_to_purge(reimbursements, chain_tip_height, txs))
    /\ write_locked' = FALSE
    /\ pc' = "signal"
    /\ purge_log' = Some([kind |-> "reimbursements", before |-> reimbursements, txs |-> txs])
    /\ cycles_written' = Bump(cycles_written)
    /\ tip_log' = None
    /\ fetch_log' = <<>>
    /\ answer_log' = None
    /\ UNCHANGED <<cfgvars, qvars, upsert_log, apply_log, cache_operators, deposits, withdrawals,
                   read_holders, gatevars, operator_statuses, chain_tip_height,
                   active_deposits, active_withdrawals, active_reimbursements,
                   requests, req_i, updates, rdvars, notify_count>>

\* variant of SignalCheck: every cycle signals readiness
SignalCheckEveryCycle ==
    /\ pc = "signal"
    /\ pc' = "store"
    /\ purge_log' = None
    /\ tip_log' = None
    /\ fetch_log' = <<>>
    /\ apply_log' = None
    /\ answer_log' = None
    /\ UNCHANGED <<cfgvars, qvars, upsert_log, cachevars, lockvars, gatevars, operator_statuses,
                   chain_tip_height, active_deposits, active_withdrawals,
                   active_reimbursements, requests, req_i, updates, rdvars,
                   notify_count, cycles_written>>

\* `if !context.status_available.load(Ordering::Acquire)`
SignalCheck ==
    /\ pc = "signal"
    /\ pc' = IF ~status_available THEN "store" ELSE "tick"
    /\ purge_log' = None
    /\ tip_log' = None
    /\ fetch_log' = <<>>
    /\ apply_log' = None
    /\ answer_log' = None
    /\ UNCHANGED <<cfgvars, qvars, upsert_log, cachevars, lockvars, gatevars, operator_statuses,
                   chain_tip_height, active_deposits, active_withdrawals,
                   active_reimbursements, requests, req_i, updates, rdvars,
                   notify_count, cycles_written>>

\* `context.status_available.store(true, Ordering::Release)`
SignalStore ==
    /\ pc = "store"
    /\ status_available' = TRUE
    /\ pc' = "notify"
    /\ purge_log' = None
    /\ tip_log' = None
    /\ fetch_log' = <<>>
    /\ apply_log' = None
    /\ answer_log' = None
    /\ UNCHANGED <<cfgvars, qvars, upsert_log, cachevars, lockvars, waiters, operator_statuses,
                   chain_tip_height, active_deposits, active_withdrawals,
                   active_reimbursements, requests, req_i, updates, rdvars,
                   notify_count, cycles_written>>

\* `context.initial_status_query_complete.notify_waiters()`: wakes the
\* Notified futures that exist now, and stores no permit
SignalNotify ==
    /\ pc = "notify"
    /\ waiters' = {}
    /\ notify_count' = Bump(notify_count)
    /\ pc' = "tick"
    /\ purge_log' = None
    /\ tip_log' = None
    /\ fetch_log' = <<>>
    /\ apply_log' = None
    /\ answer_log' = None
    /\ UNCHANGED <<cfgvars, qvars, upsert_log, cachevars, lockvars, status_available,
                   operator_statuses, chain_tip_height, active_deposits,
                   active_withdrawals, active_reimbursements, requests, req_i, updates,
                   rdvars, cycles_written>>

\* `interval.tick().await`
Tick ==
    /\ pc = "tick"
    /\ pc' = "probe"
    /\ purge_log' = None
    /\ tip_log' = None
    /\ fetch_log' = <<>>
    /\ apply_log' = None
    /\ answer_log' = None
    /\ UNCHANGED <<cfgvars, qvars, upsert_log, cachevars, lockvars, gatevars, operator_statuses,
                   chain_tip_height, active_deposits, active_withdrawals,
                   active_reimbursements, requests, req_i, updates, rdvars,
                   notify_count, cycles_written>>

(***************************************************************************)
(* get_bridge_status, per caller r.                                        *)
(***************************************************************************)
ReaderStart(r) ==
    /\ rd_pc[r] = "idle"
    /\ rd_pc' = [rd_pc EXCEPT ![r] = "check"]
    /\ started_ready' = [started_ready EXCEPT ![r] = status_available]
    /\ UNCHANGED <<cfgvars, qvars, cachevars, lockvars, gatevars, loopvars, histvars>>

\* variant of ReaderCheck: the call waits for the notification whatever
\* the flag says
ReaderCheckAlwaysWait(r) ==
    /\ rd_pc[r] = "check"
    /\ rd_pc' = [rd_pc EXCEPT ![r] = "register"]
    /\ UNCHANGED <<cfgvars, qvars, cachevars, lockvars, gatevars, loopvars,
                   started_ready, histvars>>

\* variant of ReaderCheck: the call does not look at the flag
ReaderCheckNoGate(r) ==
    /\ rd_pc[r] = "check"
    /\ rd_pc' = [rd_pc EXCEPT ![r] = "acquire"]
    /\ UNCHANGED <<cfgvars, qvars, cachevars, lockvars, gatevars, loopvars,
                   started_ready, histvars>>

\* `if !context.status_available.load(Ordering::Acquire)`
ReaderCheck(r) ==
    /\ rd_pc[r] = "check"
    /\ rd_pc' = [rd_pc EXCEPT ![r] = IF ~status_available THEN "register" ELSE "acquire"]
    /\ UNCHANGED <<cfgvars, qvars, cachevars, lockvars, gatevars, loopvars,
                   started_ready, histvars>>

\* `context.initial_status_query_complete.notified()`: from here on the
\* future receives notify_waiters
ReaderRegister(r) ==
    /\ rd_pc[r] = "register"
    /\ waiters' = waiters \cup {r}
    /\ rd_pc' = [rd_pc EXCEPT ![r] = "wait"]
    /\ UNCHANGED <<cfgvars, qvars, cachevars, lockvars, status_available, loopvars,
                   started_ready, histvars>>

\* `.await` on the Notified future completes once notify_waiters reached it
ReaderWake(r) ==
    /\ rd_pc[r] = "wait"
    /\ r \notin waiters
    /\ rd_pc' = [rd_pc EXCEPT ![r] = "acquire"]
    /\ UNCHANGED <<cfgvars, qvars, cachevars, lockvars, gatevars, loopvars,
                   started_ready, histvars>>

\* `let cache = context.status_cache.read().await`
ReaderAcquire(r) ==
    /\ rd_pc[r] = "acquire"
    /\ ~write_locked
    /\ read_holders' = read_holders \cup {r}
    /\ rd_pc' = [rd_pc EXCEPT ![r] = "read"]
    /\ UNCHANGED <<cfgvars, qvars, cachevars, write_locked, gatevars, loopvars,
                   started_ready, histvars>>

\* the snapshot is built from the four tables, the guard is dropped, the
\* call returns
ReaderReturn(r) ==
    /\ rd_pc[r] = "read"
    /\ read_holders' = read_holders \ {r}
    /\ rd_pc' = [rd_pc EXCEPT ![r] = "idle"]
    /\ UNCHANGED <<cfgvars, qvars, cachevars, write_locked, gatevars, loopvars,
                   started_ready, histvars>>

(***************************************************************************)
(* Initial states and specifications.                                      *)
(***************************************************************************)
MaxReaders == 2
ReaderIds == 1..MaxReaders

\* the configuration of the loop's runs: two operators, listed in
\* descending key order
LoopOperators == <<2, 1>>

\* what get_uptime may return to the liveness probes of a cycle, per
\* configured operator
AllOnline == [i \in 1..Len(LoopOperators) |-> Ok(0)]
ProbeVectors == [1..Len(LoopOperators) -> {Err, Ok(0)}]

\* A world bounds what the operators answer during a run: the kind of
\* entity they know identities of, those identities, the lists a list
\* query may return, and what get_uptime may return to the liveness probes.
World(kind, ids, lists, probes) == [kind |-> kind, ids |-> ids, lists |-> lists, probes |-> probes]

NoWorld == World("operators", {}, {<<>>}, {AllOnline})

EntityKinds == {"deposits", "withdrawals", "reimbursements"}

\* lists without repetition
DistinctLists(ids) == {l \in SeqsUpTo(ids, Cardinality(ids)) : Cardinality(SeqToSet(l)) = Len(l)}

\* the worlds of the loop's runs: per entity kind, one with all identities
\* and repetition-free lists, one with a single identity and lists that may
\* repeat it; and one with no identities where the probes vary
Worlds ==
    {World(k, Ids, DistinctLists(Ids), {AllOnline}) : k \in EntityKinds}
    \cup {World(k, {1}, SeqsUpTo({1}, MaxIds), {AllOnline}) : k \in EntityKinds}
    \cup {World("operators", {}, {<<>>}, ProbeVectors)}

\* the worlds of the runs with readers: one identity of one kind
GateWorlds == {World(k, {1}, DistinctLists({1}), {AllOnline}) : k \in EntityKinds}

\* the lists a list query for `kind` may return
Lists(kind) == IF world.kind = kind THEN world.lists ELSE {<<>>}

\* BridgeStatusCache::default() behind a free lock
CacheInit ==
    /\ cache_operators = <<>>
    /\ deposits = EmptyMap
    /\ withdrawals = EmptyMap
    /\ reimbursements = EmptyMap
    /\ write_locked = FALSE
    /\ read_holders = {}

\* BridgeMonitoringContext::new, and the task before its first iteration
LoopInit ==
    /\ status_available = FALSE
    /\ waiters = {}
    /\ pc = "probe"
    /\ operator_statuses = <<>>
    /\ chain_tip_height = 0
    /\ active_deposits = <<>>
    /\ active_withdrawals = <<>>
    /\ active_reimbursements = <<>>
    /\ requests = <<>>
    /\ req_i = 0
    /\ updates = <<>>
    /\ rd_pc = [r \in ReaderIds |-> "idle"]
    /\ started_ready = [r \in ReaderIds |-> FALSE]
    /\ notify_count = 0
    /\ cycles_written = 0
    /\ purge_log = None
    /\ tip_log = None
    /\ fetch_log = <<>>
    /\ apply_log = None
    /\ upsert_log = None
    /\ answer_log = None

\* one query_clients_with_retry call on a manager built from any
\* configuration
QueryInit ==
    /\ operators \in SeqsUpTo(Keys, MaxOperators)
    /\ world = NoWorld
    /\ readers = {}
    /\ settled = {}
    /\ QueryIdle
    /\ CacheInit
    /\ LoopInit

QueryNext ==
    /\ QueryStep
    /\ UNCHANGED <<cfgvars, cachevars, lockvars, gatevars, loopvars, rdvars, histvars>>

SpecQuery == QueryInit /\ [][QueryNext]_vars

\* the reconciliation loop
Init ==
    /\ operators = LoopOperators
    /\ world \in Worlds
    /\ readers = {}
    /\ settled = {}
    /\ QueryIdle
    /\ CacheInit
    /\ LoopInit

LoopNext ==
    \/ \E uptimes \in world.probes : ProbeOperators(uptimes)
    \/ UpdateOperators
    \/ \E tip_resp \in {Err} \cup {Ok(h) : h \in ChainTips} : ChainTip(tip_resp)
    \/ \E d \in Orders(filter_deposits(deposits, {"InProgress"})),
          w \in Orders(filter_withdrawals(withdrawals, {"InProgress"})),
          c \in Orders(filter_reimbursements(reimbursements, {"InProgress", "Challenged"})) :
            ReadActive(d, w, c)
    \/ \E resp \in Responses(Lists("deposits")) : FetchDepositList(resp)
    \/ /\ pc = "dep_detail"
       /\ \E resp \in Responses(RpcDepositInfos(requests[req_i])), tx_resp \in LoopTxResponses :
            FetchDepositDetail(resp, tx_resp)
    \/ ApplyDeposits
    \/ \E txs \in [DepositCheckTxids(deposits) -> LoopTxResponses] : PurgeDeposits(txs)
    \/ \E resp \in Responses(Lists("withdrawals")) : FetchWithdrawalList(resp)
    \/ /\ pc = "wd_detail"
       /\ \E raw \in Responses({None} \cup {Some(i) : i \in RpcWithdrawalInfos(requests[req_i])}),
             tx_resp \in LoopTxResponses :
            FetchWithdrawalDetail(raw, tx_resp)
    \/ ApplyWithdrawals
    \/ \E txs \in [WithdrawalCheckTxids(withdrawals) -> LoopTxResponses] : PurgeWithdrawals(txs)
    \/ \E resp \in Responses(Lists("reimbursements")) : FetchClaimList(resp)
    \/ /\ pc = "rb_detail"
       /\ \E raw \in Responses({None} \cup {Some(i) : i \in RpcClaimInfos(requests[req_i])}),
             tx_resp \in LoopTxResponses :
            FetchClaimDetail(raw, tx_resp)
    \/ ApplyReimbursements
    \/ \E txs \in [ReimbursementCheckTxids(reimbursements) -> LoopTxResponses] :
            PurgeReimbursements(txs)
    \/ SignalCheck
    \/ SignalStore
    \/ SignalNotify
    \/ Tick

Next == LoopNext

Spec == Init /\ [][Next]_vars

\* the loop and the callers of get_bridge_status
ReaderProgress(r) ==
    \/ ReaderCheck(r)
    \/ ReaderRegister(r)
    \/ ReaderWake(r)
    \/ ReaderAcquire(r)
    \/ ReaderReturn(r)

ReaderNext == \E r \in readers : ReaderStart(r) \/ ReaderProgress(r)

GateInit ==
    /\ operators = LoopOperators
    /\ world \in GateWorlds
    /\ readers = ReaderIds
    /\ settled = {}
    /\ QueryIdle
    /\ CacheInit
    /\ LoopInit

GateNext == LoopNext \/ ReaderNext

SpecGate == GateInit /\ [][GateNext]_vars

(***************************************************************************)
(* Properties of query_clients_with_retry (SpecQuery).                     *)
(***************************************************************************)
ConfiguredKeys == SeqToSet(operators)
CallsOn(k) == {i \in 1..Len(calls) : calls[i].op = k}
FailedCallsOn(k) == {i \in CallsOn(k) : ~calls[i].ok}

\* C1: operators are called in ascending key order, and when the call has
\* returned Some, the answer is that of the operator called last, every
\* configured operator with a smaller key failed all of its attempts before,
\* and no operator with a larger key was called at all
C1_FailoverOrder ==
    /\ \A i \in 1..Len(calls), j \in 1..Len(calls) : i < j => calls[i].op <= calls[j].op
    /\ (q_pc = "done" /\ IsSome(q_result)) =>
            LET k == Unwrap(q_result)
            IN  /\ calls # <<>>
                /\ calls[Len(calls)] = Call(k, TRUE)
                /\ \A a \in ConfiguredKeys :
                      /\ a < k => Cardinality(FailedCallsOn(a)) = MaxRetries + 1
                      /\ a > k => CallsOn(a) = {}

\* C1 witness: of operators configured as 3, 1, 2 the first in key order
\* failed all attempts, the second answered, the third was never called
C1_Witness ==
    /\ operators = <<3, 1, 2>>
    /\ q_pc = "done"
    /\ q_result = Some(2)
    /\ Cardinality(FailedCallsOn(1)) = MaxRetries + 1
    /\ CallsOn(3) = {}

\* C2: no operator is attempted more than retries + 1 = 4 times, nothing is
\* attempted after a success, and an operator the manager moved on from
\* failed exactly 4 times
C2_RetryBound ==
    /\ \A k \in Keys : Cardinality(CallsOn(k)) <= MaxRetries + 1
    /\ \A i \in 1..Len(calls) : calls[i].ok => i = Len(calls)
    /\ \A i \in 1..Len(calls) :
          (i < Len(calls) /\ calls[i].op # calls[i + 1].op) =>
                Cardinality(FailedCallsOn(calls[i].op)) = MaxRetries + 1

\* C2 witness: the manager moved on from an operator after its 4 failures,
\* and a retry on the next operator succeeded
C2_Witness ==
    /\ Len(calls) = MaxRetries + 3
    /\ calls[1].op # calls[Len(calls)].op
    /\ calls[Len(calls)].ok
    /\ ~calls[Len(calls) - 1].ok

\* C3: a call that has returned None made exactly 4 attempts on each
\* operator of the manager, all failed; a call that has returned Some made a
\* successful attempt
C3_AllFailNone ==
    q_pc = "done" =>
        /\ q_result = None =>
              /\ Len(calls) = Cardinality(ConfiguredKeys) * (MaxRetries + 1)
              /\ \A k \in ConfiguredKeys : Cardinality(FailedCallsOn(k)) = MaxRetries + 1
        /\ IsSome(q_result) <=> (\E i \in 1..Len(calls) : calls[i].ok)

\* C3 witness: three operators, twelve failed attempts, None
C3_Witness ==
    /\ q_pc = "done"
    /\ q_result = None
    /\ Cardinality(ConfiguredKeys) = 3
    /\ Len(calls) = 3 * (MaxRetries + 1)

(***************************************************************************)
(* Properties of the purge steps of the loop (Spec).                       *)
(***************************************************************************)
\* the table a purge step of `kind` works on
TableOf(kind) ==
    CASE kind = "deposits" -> deposits
      [] kind = "withdrawals" -> withdrawals
      [] kind = "reimbursements" -> reimbursements

TerminalOf(kind) ==
    CASE kind = "deposits" -> {"Complete", "Failed"}
      [] kind = "withdrawals" -> {"Complete"}
      [] kind = "reimbursements" -> {"Complete", "Cancelled"}

NonTerminalOf(kind) ==
    CASE kind = "deposits" -> {"InProgress"}
      [] kind = "withdrawals" -> {"InProgress"}
      [] kind = "reimbursements" -> {"InProgress", "Challenged"}

\* the settlement transaction of a terminal entry: the request or claim
\* transaction of a Failed or Cancelled one, the deposit, fulfillment or
\* payout transaction of a Complete one
SettlementTxid(kind, data) ==
    CASE kind = "deposits" ->
            IF data.status = "Failed" THEN Some(data.deposit_request_txid) ELSE data.deposit_txid
      [] kind = "withdrawals" -> data.fulfillment_txid
      [] kind = "reimbursements" ->
            IF data.status = "Cancelled" THEN Some(data.claim_txid) ELSE data.payout_txid

\* the entry `before[k]` is terminal and the explorer's answer of the step
\* for its settlement transaction counts at least MaxTxConfirmations
DueForPurge(kind, before, txs, tip, k) ==
    /\ before[k].data.status \in TerminalOf(kind)
    /\ IsSome(SettlementTxid(kind, before[k].data))
    /\ LET answer == txs[Unwrap(SettlementTxid(kind, before[k].data))]
       IN  /\ IsOk(answer)
           /\ Unwrap(answer).confirmed
           /\ IsSome(Unwrap(answer).block_height)
           /\ SaturatingSub(tip, Unwrap(Unwrap(answer).block_height)) + 1 >= MaxTxConfirmations

\* C4: right after a purge step, the keys gone from the table are exactly
\* the keys whose cached entry was terminal and whose settlement transaction
\* had, by the explorer's answer in that step, at least MaxTxConfirmations
\* confirmations; every other entry is still there, unchanged (so an entry
\* whose lookup failed or reported the transaction unconfirmed stays)
C4_PurgeExact ==
    IsSome(purge_log) =>
        LET log == Unwrap(purge_log)
            after == TableOf(log.kind)
        IN  /\ DOMAIN after \subseteq DOMAIN log.before
            /\ DOMAIN log.before \ DOMAIN after =
                    {k \in DOMAIN log.before :
                        DueForPurge(log.kind, log.before, log.txs, chain_tip_height, k)}
            /\ \A k \in DOMAIN after : after[k] = log.before[k]

\* C4 witness: a purge step removed one terminal entry and kept another
\* terminal entry whose explorer lookup failed
C4_Witness ==
    /\ IsSome(purge_log)
    /\ LET log == Unwrap(purge_log)
           after == TableOf(log.kind)
       IN  /\ \E k \in DOMAIN log.before : k \notin DOMAIN after
           /\ \E j \in DOMAIN after :
                 /\ after[j].data.status \in TerminalOf(log.kind)
                 /\ log.txs[Unwrap(SettlementTxid(log.kind, after[j].data))] = Err

\* one step keeps every non-terminal entry of `kind`, and removes entries
\* in the purge step of `kind` only
KeepsNonTerminal(kind, table, table_next, purge_pc) ==
    /\ \A k \in DOMAIN table :
          table[k].data.status \in NonTerminalOf(kind) => k \in DOMAIN table_next
    /\ DOMAIN table \ DOMAIN table_next # {} => pc = purge_pc

\* C5: in every step, a key whose cached status is non-terminal is still
\* in its table in the next state, and a table loses keys only in its purge
\* step
C5_NonTerminalKept ==
    [][/\ KeepsNonTerminal("deposits", deposits, deposits', "dep_purge")
       /\ KeepsNonTerminal("withdrawals", withdrawals, withdrawals', "wd_purge")
       /\ KeepsNonTerminal("reimbursements", reimbursements, reimbursements', "rb_purge")]_vars

\* C5 witness: a purge step removed a terminal entry while a non-terminal
\* entry of the same table stayed
C5_Witness ==
    /\ IsSome(purge_log)
    /\ LET log == Unwrap(purge_log)
           after == TableOf(log.kind)
       IN  /\ \E k \in DOMAIN log.before : k \notin DOMAIN after
           /\ \E j \in DOMAIN log.before :
                 /\ log.before[j].data.status \in NonTerminalOf(log.kind)
                 /\ j \in DOMAIN after

(***************************************************************************)
(* Properties of the readiness gate (SpecGate).                            *)
(***************************************************************************)
\* C8: status_available starts false; no step takes it from true back to
\* false; notify_waiters is issued at most once in a run, and that one
\* call comes after the store that set the flag
C8_WriteOnce ==
    /\ ~status_available
    /\ [][/\ status_available => status_available'
          /\ notify_count' # notify_count =>
                (notify_count = 0 /\ notify_count' = 1 /\ status_available)]_vars

\* C8 witness: a second cycle has finished its writes and gone past the
\* readiness check after the flag was set, with one notify_waiters call
C8_Witness ==
    /\ status_available
    /\ notify_count = 1
    /\ cycles_written = 2
    /\ pc = "tick"

\* C9: a call that started when the flag was already set is never at the
\* creation of the Notified future nor waiting on it
C9_NoWaitWhenReady ==
    \A r \in ReaderIds :
        started_ready[r] => rd_pc[r] \notin {"register", "wait"}

\* C9 witness: a call that started after the flag was set holds the read
\* lock
C9_Witness ==
    \E r \in ReaderIds :
        /\ started_ready[r]
        /\ rd_pc[r] = "read"
        /\ r \in read_holders

\* C10: a call that holds the read guard, building its snapshot, does so
\* with status_available true, after a cycle has finished all of its cache
\* writes, and while the loop is not writing
C10_SnapshotAfterFirstCycle ==
    \A r \in ReaderIds :
        rd_pc[r] = "read" =>
            /\ status_available
            /\ cycles_written >= 1
            /\ ~write_locked

\* C10 witness: a call that started before the flag was set and waited
\* for the notification holds the read guard
C10_Witness ==
    \E r \in ReaderIds :
        /\ ~started_ready[r]
        /\ rd_pc[r] = "read"
        /\ notify_count = 1

\* The loop and the callers under fair scheduling: the runtime keeps
\* polling the task and every call that can take a step, and the RwLock
\* serves its waiters in turn, so no side is passed over forever.
FairSpecGate ==
    /\ SpecGate
    /\ SF_vars(LoopNext)
    /\ \A r \in ReaderIds : SF_vars(ReaderProgress(r))

\* C7: a call that started before the flag was set and is still in flight
\* once notify_waiters has been issued eventually returns
C7_NoLostWakeup ==
    \A r \in ReaderIds :
        (rd_pc[r] # "idle" /\ ~started_ready[r] /\ notify_count >= 1) ~> (rd_pc[r] = "idle")

\* C7 witness: a call that found the flag unset created its Notified future
\* after notify_waiters had been issued, and waits on it
C7_Witness ==
    \E r \in ReaderIds :
        /\ rd_pc[r] = "wait"
        /\ r \in waiters
        /\ notify_count = 1
        /\ status_available

(***************************************************************************)
(* The loop against a bridge that settles identities for good, with        *)
(* operators and explorer answering every query.  Once an identity is in   *)
(* `settled`, every operator reports a terminal status for it and the      *)
(* explorer reports its transactions MaxTxConfirmations deep or deeper.    *)
(***************************************************************************)
\* every client answers Ok with one of `values`
Answering(values) == [SeqToSet(clients) -> {Ok(v) : v \in values}]

\* the chain tip of these runs
SettledTip == MaxTxConfirmations

\* the explorer's answers for a transaction of a settled identity: with the
\* tip at SettledTip they count MaxTxConfirmations + 1 and MaxTxConfirmations
DeepTxResponses == {Ok(TxStatus(TRUE, Some(h))) : h \in {0, 1}}

\* the explorer's answers when it answers
AnsweredTxResponses == LoopTxResponses \ {Err}

\* the identity a txid belongs to
TxidOwner(txid) == IF txid > MaxIds THEN txid - MaxIds ELSE txid

\* what the operators may report about identity id, out of `infos`
Reported(infos, id) ==
    IF id \in settled
    THEN {i \in infos : i.status.tag \in {"Complete", "Failed", "Cancelled"}}
    ELSE infos

\* what the explorer may answer about a transaction of identity id
Explored(id) == IF id \in settled THEN DeepTxResponses ELSE AnsweredTxResponses

\* the explorer's answers to the lookups of one purge step
ExploredAll(txids) ==
    {txs \in [txids -> AnsweredTxResponses] :
        \A t \in txids : txs[t] \in Explored(TxidOwner(t))}

\* the bridge settles identity id
Settle(id) ==
    /\ id \in world.ids \ settled
    /\ settled' = settled \cup {id}
    /\ UNCHANGED <<operators, world, readers, qvars, cachevars, lockvars, gatevars,
                   loopvars, rdvars, histvars>>

EvictLoop ==
    \/ \E uptimes \in world.probes : ProbeOperators(uptimes)
    \/ UpdateOperators
    \/ ChainTip(Ok(SettledTip))
    \/ \E d \in Orders(filter_deposits(deposits, {"InProgress"})),
          w \in Orders(filter_withdrawals(withdrawals, {"InProgress"})),
          c \in Orders(filter_reimbursements(reimbursements, {"InProgress", "Challenged"})) :
            ReadActive(d, w, c)
    \/ \E resp \in Answering(Lists("deposits")) : FetchDepositList(resp)
    \/ /\ pc = "dep_detail"
       /\ \E resp \in Answering(Reported(RpcDepositInfos(requests[req_i]), requests[req_i])),
             tx_resp \in Explored(requests[req_i]) :
            FetchDepositDetail(resp, tx_resp)
    \/ ApplyDeposits
    \/ \E txs \in ExploredAll(DepositCheckTxids(deposits)) : PurgeDeposits(txs)
    \/ \E resp \in Answering(Lists("withdrawals")) : FetchWithdrawalList(resp)
    \/ /\ pc = "wd_detail"
       /\ \E raw \in Answering({Some(i) :
                        i \in Reported(RpcWithdrawalInfos(requests[req_i]), requests[req_i])}),
             tx_resp \in Explored(requests[req_i]) :
            FetchWithdrawalDetail(raw, tx_resp)
    \/ ApplyWithdrawals
    \/ \E txs \in ExploredAll(WithdrawalCheckTxids(withdrawals)) : PurgeWithdrawals(txs)
    \/ \E resp \in Answering(Lists("reimbursements")) : FetchClaimList(resp)
    \/ /\ pc = "rb_detail"
       /\ \E raw \in Answering({Some(i) :
                        i \in Reported(RpcClaimInfos(requests[req_i]), requests[req_i])}),
             tx_resp \in Explored(requests[req_i]) :
            FetchClaimDetail(raw, tx_resp)
    \/ ApplyReimbursements
    \/ \E txs \in ExploredAll(ReimbursementCheckTxids(reimbursements)) :
            PurgeReimbursements(txs)
    \/ SignalCheck
    \/ SignalStore
    \/ SignalNotify
    \/ Tick

EvictNext ==
    \/ \E id \in world.ids : Settle(id)
    \/ EvictLoop

\* the runs start as the loop's do, in a world with one identity
EvictInit ==
    /\ operators = LoopOperators
    /\ world \in GateWorlds
    /\ readers = {}
    /\ settled = {}
    /\ QueryIdle
    /\ CacheInit
    /\ LoopInit

\* the task is polled whenever it can take a step: the loop keeps cycling
FairSpecEvict == EvictInit /\ [][EvictNext]_vars /\ WF_vars(EvictLoop)

\* C6: an identity that is in a cache table and settled (the operators
\* report it terminal, the explorer reports its settlement transaction at
\* least MaxTxConfirmations deep) is eventually not in that table
C6_EvictionLive ==
    \A id \in Ids, kind \in EntityKinds :
        (id \in settled /\ id \in DOMAIN TableOf(kind)) ~> (id \notin DOMAIN TableOf(kind))

\* C6 witness: a settled identity is still cached with a non-terminal
\* status at the end of a cycle that had it among its active identities
C6_Witness ==
    \E id \in settled, kind \in EntityKinds :
        /\ id \in DOMAIN TableOf(kind)
        /\ TableOf(kind)[id].data.status \in NonTerminalOf(kind)
        /\ pc = "tick"
        /\ updates = <<>>
        /\ active_deposits \o active_withdrawals \o active_reimbursements = <<id>>

(***************************************************************************)
(* Properties of one cycle of the loop (Spec), over the records the fetch, *)
(* apply and purge steps of the cycle leave.                               *)
(***************************************************************************)
\* C11: after the batch apply of a cycle, and after the purge that follows
\* it, an entry that was cached with a non-terminal status before the apply
\* and whose detail queries of the cycle all went unanswered by every
\* operator is in the table with the data, confirmations and last_updated
\* it had before
C11_ActiveRetained ==
    IsSome(apply_log) =>
        LET log == Unwrap(apply_log)
            now == TableOf(log.kind)
        IN  \A k \in log.unanswered \cap DOMAIN log.before :
                log.before[k].data.status \in NonTerminalOf(log.kind) =>
                    /\ k \in DOMAIN now
                    /\ now[k] = log.before[k]

\* C11 witness: the cycle's purge is done, and an entry cached as
\* non-terminal whose detail query no operator answered is still there
C11_Witness ==
    /\ IsSome(apply_log)
    /\ IsSome(purge_log)
    /\ LET log == Unwrap(apply_log)
       IN  \E k \in log.unanswered \cap DOMAIN log.before :
                /\ log.before[k].data.status \in NonTerminalOf(log.kind)
                /\ k \in DOMAIN TableOf(log.kind)

(***************************************************************************)
(* update_deposit / update_withdrawal / update_reimbursement on their own: *)
(* any update applied to any table the updates build, and the same update  *)
(* applied once more at a later reading of the clock.                      *)
(***************************************************************************)
\* readings of SystemTime::now(), in seconds
MaxNow == 1
Clock == 0..MaxNow

\* the confirmation counts of the updates
Confirmations == 0..MaxTxConfirmations

\* the infos an update for `key` may carry
InfosOf(kind, key) ==
    CASE kind = "deposits" -> {DepositInfo_from(i) : i \in RpcDepositInfos(key)}
      [] kind = "withdrawals" -> {WithdrawalInfo_from(i) : i \in RpcWithdrawalInfos(key)}
      [] kind = "reimbursements" -> {ReimbursementInfo_from(i) : i \in RpcClaimInfos(key)}

\* the table of `kind` after update_deposit / update_withdrawal /
\* update_reimbursement
Updated(kind, key, info, confirmations, now) ==
    CASE kind = "deposits" -> update_deposit(deposits, key, info, confirmations, now)
      [] kind = "withdrawals" -> update_withdrawal(withdrawals, key, info, confirmations, now)
      [] kind = "reimbursements" ->
            update_reimbursement(reimbursements, key, info, confirmations, now)

UpdateTable(kind, key, info, confirmations, now) ==
    /\ deposits' = IF kind = "deposits"
                   THEN Updated(kind, key, info, confirmations, now) ELSE deposits
    /\ withdrawals' = IF kind = "withdrawals"
                      THEN Updated(kind, key, info, confirmations, now) ELSE withdrawals
    /\ reimbursements' = IF kind = "reimbursements"
                         THEN Updated(kind, key, info, confirmations, now) ELSE reimbursements

UpsertFrame ==
    UNCHANGED <<cfgvars, qvars, cache_operators, lockvars, gatevars, loopvars, rdvars,
                notify_count, cycles_written, purge_log, tip_log, fetch_log, apply_log,
                answer_log>>

\* an update is applied
Upsert(key, info, confirmations, now) ==
    /\ UpdateTable(world.kind, key, info, confirmations, now)
    /\ upsert_log' = Some([key |-> key, info |-> info, confirmations |-> confirmations,
                           once |-> Updated(world.kind, key, info, confirmations, now),
                           times |-> 1])
    /\ UpsertFrame

\* the update applied last is applied once more
UpsertAgain(now) ==
    /\ IsSome(upsert_log)
    /\ Unwrap(upsert_log).times = 1
    /\ UpdateTable(world.kind, Unwrap(upsert_log).key, Unwrap(upsert_log).info,
                   Unwrap(upsert_log).confirmations, now)
    /\ upsert_log' = Some([Unwrap(upsert_log) EXCEPT !.times = 2])
    /\ UpsertFrame

UpsertInit ==
    /\ operators = LoopOperators
    /\ world \in {World(k, Ids, {<<>>}, {AllOnline}) : k \in EntityKinds}
    /\ readers = {}
    /\ settled = {}
    /\ QueryIdle
    /\ CacheInit
    /\ LoopInit

UpsertNext ==
    \/ \E key \in Ids, confirmations \in Confirmations, now \in Clock :
            \E info \in InfosOf(world.kind, key) : Upsert(key, info, confirmations, now)
    \/ \E now \in Clock : UpsertAgain(now)

SpecUpsert == UpsertInit /\ [][UpsertNext]_vars

\* C12: when an update has been applied twice in a row, the table has the
\* keys it had after the first application, with the same data and
\* confirmations under every key
C12_UpsertIdempotent ==
    (IsSome(upsert_log) /\ Unwrap(upsert_log).times = 2) =>
        LET once == Unwrap(upsert_log).once
            twice == TableOf(world.kind)
        IN  /\ DOMAIN twice = DOMAIN once
            /\ \A k \in DOMAIN once :
                  /\ twice[k].data = once[k].data
                  /\ twice[k].confirmations = once[k].confirmations

\* C12 witness: the second application of an update with a positive count,
\* to a table of two entries, changed last_updated only
C12_Witness ==
    /\ IsSome(upsert_log)
    /\ Unwrap(upsert_log).times = 2
    /\ Unwrap(upsert_log).confirmations > 0
    /\ LET once == Unwrap(upsert_log).once
           twice == TableOf(world.kind)
           key == Unwrap(upsert_log).key
       IN  /\ Cardinality(DOMAIN twice) = 2
           /\ twice[key].last_updated # once[key].last_updated
           /\ twice[key].data = Unwrap(upsert_log).info

\* C13: no entry of the reimbursements table has status NotStarted, and no
\* update of a batch under construction has
C13_NoNotStarted ==
    /\ \A k \in DOMAIN reimbursements : reimbursements[k].data.status # "NotStarted"
    /\ \A i \in 1..Len(updates) : updates[i][1].status # "NotStarted"

\* C13 witness: the batch of a cycle in which the operators reported one
\* listed claim as NotStarted and another as started has been applied; the
\* first is not in the table, the second is
C13_Witness ==
    /\ pc = "rb_purge"
    /\ \E i \in 1..Len(fetch_log), j \in 1..Len(fetch_log) :
          /\ IsSome(fetch_log[i].info)
          /\ Unwrap(fetch_log[i].info).status.tag = "NotStarted"
          /\ fetch_log[i].id \notin DOMAIN reimbursements
          /\ fetch_log[j].id \in DOMAIN reimbursements

\* the records of the detail queries for identity k in the log
RecordsOf(log, k) == {i \in 1..Len(log) : log[i].id = k}

\* in every detail query for k of the log the operators reported k as
\* Complete and the explorer gave its deposit transaction c confirmations
ReportedComplete(log, k, c) ==
    /\ RecordsOf(log, k) # {}
    /\ \A i \in RecordsOf(log, k) :
          /\ IsSome(log[i].info)
          /\ Unwrap(log[i].info).status.tag = "Complete"
          /\ get_tx_confirmations(Unwrap(log[i].tx), chain_tip_height) = Some(c)

\* the confirmations of the deposit transaction of entry by the explorer's
\* answers txs
DepositTxConfirmations(entry, txs) ==
    get_tx_confirmations(txs[Unwrap(entry.data.deposit_txid)], chain_tip_height)

\* C14: (a) after the batch apply of a cycle, a deposit that was cached as
\* InProgress and that the operators reported as Complete with c
\* confirmations, 1 <= c < MaxTxConfirmations, is cached as Complete with
\* count c; (b) it is kept by the purge of that cycle when the explorer
\* still gives less than MaxTxConfirmations; (c) a deposit cached as
\* Complete is gone after the purge of a cycle in which the explorer gives
\* MaxTxConfirmations or more, so a read after that cycle does not hold it
C14_DepositLifecycle ==
    (IsSome(apply_log) /\ Unwrap(apply_log).kind = "deposits") =>
        LET pre == Unwrap(apply_log).before
        IN  /\ pc = "dep_purge" =>
                  \A k \in DOMAIN pre, c \in 1..(MaxTxConfirmations - 1) :
                      (pre[k].data.status = "InProgress" /\ ReportedComplete(fetch_log, k, c)) =>
                          /\ k \in DOMAIN deposits
                          /\ deposits[k].data.status = "Complete"
                          /\ deposits[k].data.deposit_txid = Some(SettleTxid(k))
                          /\ deposits[k].confirmations = c
            /\ IsSome(purge_log) =>
                  LET applied == Unwrap(purge_log).before
                      txs == Unwrap(purge_log).txs
                  IN  \A k \in DOMAIN applied :
                          applied[k].data.status = "Complete" =>
                              LET conf == DepositTxConfirmations(applied[k], txs)
                              IN  /\ (IsSome(conf) /\ Unwrap(conf) < MaxTxConfirmations) =>
                                        (k \in DOMAIN deposits /\ deposits[k] = applied[k])
                                  /\ (IsSome(conf) /\ Unwrap(conf) >= MaxTxConfirmations) =>
                                        k \notin DOMAIN deposits

\* C14 witness: a deposit that entered a cycle cached as Complete with a
\* count of at least 1 was purged in that cycle
C14_Witness ==
    /\ IsSome(apply_log)
    /\ Unwrap(apply_log).kind = "deposits"
    /\ IsSome(purge_log)
    /\ \E k \in DOMAIN Unwrap(apply_log).before :
          /\ Unwrap(apply_log).before[k].data.status = "Complete"
          /\ Unwrap(apply_log).before[k].confirmations >= 1
          /\ k \notin DOMAIN deposits

(***************************************************************************)
(* Properties of the cycle whose chain-tip fetch fails (Spec).             *)
(***************************************************************************)
\* the chain-tip fetch just made failed
TipFailed == IsSome(tip_log) /\ ~IsOk(Unwrap(tip_log))

\* C15: right after a failed chain-tip fetch the loop waits for the
\* interval timer: it is at `interval.tick().await`, not at the liveness
\* probes of a new cycle
C15_RetryAtNextTick == TipFailed => pc = "tick"

\* C15 witness: after a failed chain-tip fetch the loop is at the liveness
\* probes of the next cycle
C15_Witness == TipFailed /\ pc = "probe"

\* the positions of the loop at which it queries the operators for lists
\* and details or the explorer for confirmations
QueryPositions ==
    {"dep_list", "dep_detail", "dep_purge", "wd_list", "wd_detail", "wd_purge",
     "rb_list", "rb_detail", "rb_purge"}

\* C16: the steps of a cycle up to its chain-tip fetch leave the deposits,
\* withdrawals and reimbursements tables and the readiness flag alone, the
\* operators table is replaced by the cycle's probe results before the
\* fetch, and the step of a failed fetch changes no table, does not set
\* the flag, and leaves the loop at the start of a cycle, not at a query
C16_FailedTipCycle ==
    [][/\ pc \in {"probe", "update_operators", "chain_tip"} =>
             /\ UNCHANGED <<deposits, withdrawals, reimbursements>>
             /\ UNCHANGED <<status_available, notify_count>>
       /\ (pc = "update_operators" /\ pc' # pc) =>
             (cache_operators' = operator_statuses /\ pc' = "chain_tip")
       /\ (pc = "chain_tip" /\ TipFailed') =>
             /\ UNCHANGED cache_operators
             /\ pc' \notin QueryPositions
             /\ pc' \in {"probe", "tick"}]_vars

\* C16 witness: after a failed chain-tip fetch in a run that has not
\* signalled readiness, the operators table holds the probe results of the
\* cycle, one of them Offline
C16_Witness ==
    /\ TipFailed
    /\ ~status_available
    /\ Len(cache_operators) = Len(operators)
    /\ \E i \in 1..Len(cache_operators) : cache_operators[i].status = "Offline"

(***************************************************************************)
(* Properties of the loop's use of the write lock (SpecGate).              *)
(***************************************************************************)
\* the loop is about to await an operator RPC: the liveness probes, a list
\* query or a detail query
AwaitsOperators ==
    pc \in {"probe", "dep_list", "dep_detail", "wd_list", "wd_detail", "rb_list", "rb_detail"}

\* the loop is about to await an explorer request: the chain tip, or the
\* confirmations of the terminal entries a purge step looks up
AwaitsExplorer ==
    \/ pc = "chain_tip"
    \/ pc = "dep_purge" /\ DepositCheckTxids(deposits) # {}
    \/ pc = "wd_purge" /\ WithdrawalCheckTxids(withdrawals) # {}
    \/ pc = "rb_purge" /\ ReimbursementCheckTxids(reimbursements) # {}

\* C17: while the loop holds the write lock it awaits no operator RPC and
\* no explorer request
C17_NoNetworkUnderWriteLock == write_locked => ~(AwaitsOperators \/ AwaitsExplorer)

\* C17 witness: a get_bridge_status call waits for the read lock while
\* the loop, holding the write lock, looks up confirmations at the explorer
C17_Witness ==
    /\ write_locked
    /\ AwaitsExplorer
    /\ \E r \in ReaderIds : rd_pc[r] = "acquire"

(***************************************************************************)
(* Properties of the order of the steps of a cycle (Spec).                 *)
(***************************************************************************)
\* the phase of a cycle a position of the loop belongs to: liveness and
\* operators replace, chain tip, fetch and apply per entity, the purges,
\* the readiness signal, the wait for the timer
PhaseOf(at) ==
    CASE at \in {"probe", "update_operators"} -> 1
      [] at = "chain_tip" -> 2
      [] at \in {"read_active", "dep_list", "dep_detail", "dep_apply"} -> 3
      [] at \in {"wd_list", "wd_detail", "wd_apply"} -> 4
      [] at \in {"rb_list", "rb_detail", "rb_apply"} -> 5
      [] at \in {"dep_purge", "wd_purge", "rb_purge"} -> 6
      [] at \in {"signal", "store", "notify"} -> 7
      [] at = "tick" -> 8

NextPositions(at) ==
    CASE at = "probe" -> {"update_operators"}
      [] at = "update_operators" -> {"chain_tip"}
      [] at = "chain_tip" -> {"read_active", "probe"}
      [] at = "read_active" -> {"dep_list"}
      [] at = "dep_list" -> {"dep_detail", "dep_apply"}
      [] at = "dep_detail" -> {"dep_detail", "dep_apply"}
      [] at = "dep_apply" -> {"dep_purge"}
      [] at = "dep_purge" -> {"wd_list"}
      [] at = "wd_list" -> {"wd_detail", "wd_apply"}
      [] at = "wd_detail" -> {"wd_detail", "wd_apply"}
      [] at = "wd_apply" -> {"wd_purge"}
      [] at = "wd_purge" -> {"rb_list"}
      [] at = "rb_list" -> {"rb_detail", "rb_apply"}
      [] at = "rb_detail" -> {"rb_detail", "rb_apply"}
      [] at = "rb_apply" -> {"rb_purge"}
      [] at = "rb_purge" -> {"signal"}
      [] at = "signal" -> {"store", "tick"}
      [] at = "store" -> {"notify"}
      [] at = "notify" -> {"tick"}
      [] at = "tick" -> {"probe"}

C19_FreshTerminalKept ==
    (IsSome(apply_log) /\ IsSome(purge_log)) =>
        LET kind == Unwrap(apply_log).kind
            pre == Unwrap(apply_log).before
            applied == Unwrap(purge_log).before
        IN  \A k \in DOMAIN applied :
                (/\ applied[k].data.status \in TerminalOf(kind)
                 /\ (k \in DOMAIN pre => pre[k].data.status \in NonTerminalOf(kind))) =>
                    k \in DOMAIN TableOf(kind)

\* C19 witness: an entry the batch apply of the cycle took from
\* non-terminal to terminal is gone after the purge of the same cycle
C19_Witness ==
    /\ IsSome(apply_log)
    /\ IsSome(purge_log)
    /\ LET kind == Unwrap(apply_log).kind
           pre == Unwrap(apply_log).before
           applied == Unwrap(purge_log).before
       IN  \E k \in DOMAIN applied \cap DOMAIN pre :
                /\ pre[k].data.status \in NonTerminalOf(kind)
                /\ applied[k].data.status \in TerminalOf(kind)
                /\ k \notin DOMAIN TableOf(kind)

\* in every detail query for k of the log the operators reported k with a
\* status for which the explorer is asked, and the lookup of the
\* settlement transaction failed or found it unconfirmed
TerminalUncounted(log, k) ==
    /\ RecordsOf(log, k) # {}
    /\ \A i \in RecordsOf(log, k) :
          /\ IsSome(log[i].info)
          /\ Unwrap(log[i].info).status.tag \in ExplorerConsulted
          /\ get_tx_confirmations(Unwrap(log[i].tx), chain_tip_height) = None

\* C20: after the batch apply of a cycle, an entry the operators reported
\* as terminal while the explorer lookup of its settlement transaction
\* failed or found it unconfirmed is cached with a terminal status and a
\* confirmation count of 0
C20_UncountedTerminalCached ==
    (IsSome(apply_log) /\ pc \in {"dep_purge", "wd_purge", "rb_purge"}) =>
        LET kind == Unwrap(apply_log).kind
        IN  \A k \in Ids :
                TerminalUncounted(fetch_log, k) =>
                    /\ k \in DOMAIN TableOf(kind)
                    /\ TableOf(kind)[k].data.status \in TerminalOf(kind)
                    /\ TableOf(kind)[k].confirmations = 0

\* C20 witness: the batch apply of a cycle is done, the operators reported
\* an entry as terminal, the explorer lookup gave no count, and the entry
\* is not cached
C20_Witness ==
    /\ IsSome(apply_log)
    /\ pc \in {"dep_purge", "wd_purge", "rb_purge"}
    /\ \E k \in Ids :
          /\ TerminalUncounted(fetch_log, k)
          /\ k \notin DOMAIN TableOf(Unwrap(apply_log).kind)

(***************************************************************************)
(* Properties of the list queries and of the liveness probes (Spec).       *)
(***************************************************************************)
\* the answers of the operators to the list query just made
ListAnswers == Unwrap(answer_log).answers

\* a list query has just been answered
ListQueried == IsSome(answer_log) /\ Unwrap(answer_log).of = "list"

RECURSIVE FirstNonEmpty(_, _)
\* the first non-empty list an operator reported, taking the operators in
\* the order of keys; the empty list when there is none
FirstNonEmpty(keys, resp) ==
    IF keys = <<>> THEN <<>>
    ELSE IF IsOk(resp[Head(keys)]) /\ Unwrap(resp[Head(keys)]) # <<>>
         THEN Unwrap(resp[Head(keys)])
         ELSE FirstNonEmpty(Tail(keys), resp)

\* list l is the head of sequence s
IsPrefix(l, s) == Len(l) <= Len(s) /\ SubSeq(s, 1, Len(l)) = l

\* C21: the identities to query start with the first non-empty list an
\* operator reported to the list query, taking the operators in order
C21_FirstNonEmptyList ==
    ListQueried => IsPrefix(FirstNonEmpty(clients, ListAnswers), requests)

\* C21 witness: the first operator answered the list query with an empty
\* list, a later operator would have reported a non-empty one, and no
\* identity is queried
C21_Witness ==
    /\ ListQueried
    /\ ListAnswers[clients[1]] = Ok(<<>>)
    /\ FirstNonEmpty(clients, ListAnswers) # <<>>
    /\ requests = <<>>

(***************************************************************************)
(* The loop under fair scheduling: the runtime polls the task whenever it  *)
(* can take a step, and every await on an operator or on the explorer      *)
(* returns, with an answer or with an error.                               *)
(***************************************************************************)
\* the runs start as the loop's do, in a world with one identity of one
\* kind or in the world where the probes vary
FairInit ==
    /\ operators = LoopOperators
    /\ world \in GateWorlds \cup {World("operators", {}, {<<>>}, ProbeVectors)}
    /\ readers = {}
    /\ settled = {}
    /\ QueryIdle
    /\ CacheInit
    /\ LoopInit

FairSpec == FairInit /\ [][Next]_vars /\ WF_vars(LoopNext)

\* C22: whatever the operators and the explorer answer, the loop starts a
\* new cycle again and again
C22_LoopNeverStops == []<>(pc = "probe")

\* C22 witness: after at least one completed cycle, a cycle in which the
\* chain-tip fetch failed has led to the start of another cycle
C22_Witness == cycles_written >= 1 /\ TipFailed /\ pc = "probe"

(***************************************************************************)
(* Properties of the fetch and apply steps of one entity (Spec).           *)
(***************************************************************************)
\* the batch apply of this cycle's write block is done, its purge is not
PostApply == IsSome(apply_log) /\ pc \in {"dep_purge", "wd_purge", "rb_purge"}

\* what the pass of the detail loop recorded as rec pushed to the batch
Classified(kind, rec) ==
    IF ~IsSome(rec.info) THEN <<>>
    ELSE LET info == Unwrap(rec.info)
             tx_resp == UnwrapOr(rec.tx, Err)
         IN  CASE kind = "deposits" -> classify_deposit(info, tx_resp, chain_tip_height)
               [] kind = "withdrawals" -> classify_withdrawal(info, tx_resp, chain_tip_height)
               [] kind = "reimbursements" ->
                    classify_reimbursement(info, tx_resp, chain_tip_height)

\* the passes of the log for identity k that pushed to the batch
PushesFor(kind, log, k) == {i \in RecordsOf(log, k) : Classified(kind, log[i]) # <<>>}

MaxOf(S) == CHOOSE x \in S : \A y \in S : y <= x

\* the last <<info, confirmations>> pushed for identity k
LastPush(kind, log, k) == Classified(kind, log[MaxOf(PushesFor(kind, log, k))])[1]

\* identity k, if pushed to the batch, is cached with the data and the
\* confirmations pushed last
AppliedAsFetched(kind, log, k) ==
    PushesFor(kind, log, k) # {} =>
        /\ k \in DOMAIN TableOf(kind)
        /\ TableOf(kind)[k].data = LastPush(kind, log, k)[1]
        /\ TableOf(kind)[k].confirmations = LastPush(kind, log, k)[2]

\* C23: after the batch apply of a cycle in which no operator answered the
\* detail query of some identity, every other identity that was answered
\* and classified into the batch is cached as fetched
C23_FailureIsolated ==
    (PostApply /\ Unanswered(fetch_log) # {}) =>
        \A k \in Ids \ Unanswered(fetch_log) :
            AppliedAsFetched(Unwrap(apply_log).kind, fetch_log, k)

\* C23 witness: the detail query of one identity went unanswered, a later
\* pass for another identity pushed to the batch, and the batch is applied
C23_Witness ==
    /\ PostApply
    /\ \E i, j \in 1..Len(fetch_log) :
          /\ i < j
          /\ fetch_log[i].id \in Unanswered(fetch_log)
          /\ j \in PushesFor(Unwrap(apply_log).kind, fetch_log, fetch_log[j].id)
          /\ fetch_log[j].id \in DOMAIN TableOf(Unwrap(apply_log).kind)

\* the answers of get_uptime to the probes just made
ProbeAnswers == Unwrap(answer_log).answers

\* C24: the step after the probes replaces the operators table by one entry
\* per configured operator, in configuration order, each Online if its own
\* probe was answered and Offline if not; no other step changes the table
C24_OperatorsReplaced ==
    [][IF pc = "update_operators"
       THEN /\ Len(cache_operators') = Len(operators)
            /\ \A i \in 1..Len(operators) :
                  /\ cache_operators'[i].operator_pk = operators[i]
                  /\ cache_operators'[i].operator_id = i
                  /\ cache_operators'[i].status =
                        (IF IsOk(ProbeAnswers[i]) THEN "Online" ELSE "Offline")
       ELSE cache_operators' = cache_operators]_vars

\* C24 witness: the table of a cycle in which the probe of the first
\* configured operator failed and the probe of the second was answered,
\* replacing a table in which both were Online
C24_Witness ==
    /\ pc = "chain_tip"
    /\ Len(cache_operators) = 2
    /\ cache_operators[1].status = "Offline"
    /\ cache_operators[2].status = "Online"
    /\ cycles_written >= 1

(***************************************************************************)
(* Properties of the confirmation threshold (Spec).                        *)
(***************************************************************************)
\* the confirmation counts of the runs
Counts == 1..(MaxTxConfirmations + 1)

\* in every detail query for k of the log the operators reported k with a
\* terminal status and the explorer gave its settlement transaction c
\* confirmations
ReportedTerminal(log, k, c) ==
    /\ RecordsOf(log, k) # {}
    /\ \A i \in RecordsOf(log, k) :
          /\ IsSome(log[i].info)
          /\ Unwrap(log[i].info).status.tag \in ExplorerConsulted
          /\ get_tx_confirmations(Unwrap(log[i].tx), chain_tip_height) = Some(c)

\* the count the purge step's lookup gave for the cached entry
PurgeCount(kind, entry, txs) ==
    IF IsSome(SettlementTxid(kind, entry.data))
    THEN get_tx_confirmations(txs[Unwrap(SettlementTxid(kind, entry.data))], chain_tip_height)
    ELSE None

\* C25: (a) after the batch apply, an identity reported terminal with count
\* c is cached with that count when c < MaxTxConfirmations, and its cache
\* entry is as before the apply (absent if it was absent) when
\* c >= MaxTxConfirmations; (b) after the purge, a terminal entry whose
\* lookup gave count c is gone when c >= MaxTxConfirmations and kept when
\* c < MaxTxConfirmations
C25_ThresholdBoundary ==
    /\ PostApply =>
            LET kind == Unwrap(apply_log).kind
                pre == Unwrap(apply_log).before
                table == TableOf(kind)
            IN  \A k \in Ids, c \in Counts :
                    ReportedTerminal(fetch_log, k, c) =>
                        IF c < MaxTxConfirmations
                        THEN /\ k \in DOMAIN table
                             /\ table[k].data.status \in TerminalOf(kind)
                             /\ table[k].confirmations = c
                        ELSE /\ k \in DOMAIN table <=> k \in DOMAIN pre
                             /\ k \in DOMAIN pre => table[k] = pre[k]
    /\ IsSome(purge_log) =>
            LET kind == Unwrap(purge_log).kind
                before == Unwrap(purge_log).before
                txs == Unwrap(purge_log).txs
            IN  \A k \in DOMAIN before, c \in Counts :
                    (/\ before[k].data.status \in TerminalOf(kind)
                     /\ PurgeCount(kind, before[k], txs) = Some(c)) =>
                        (k \notin DOMAIN TableOf(kind) <=> c >= MaxTxConfirmations)

\* C25 witness: an entry that was applied with MaxTxConfirmations - 1
\* confirmations has been purged on a lookup that gave exactly
\* MaxTxConfirmations
C25_Witness ==
    /\ IsSome(purge_log)
    /\ LET kind == Unwrap(purge_log).kind
           before == Unwrap(purge_log).before
           txs == Unwrap(purge_log).txs
       IN  \E k \in DOMAIN before :
                /\ before[k].data.status \in TerminalOf(kind)
                /\ before[k].confirmations = MaxTxConfirmations - 1
                /\ PurgeCount(kind, before[k], txs) = Some(MaxTxConfirmations)
                /\ k \notin DOMAIN TableOf(kind)

\* the explorer's answers to the lookups of the detail passes of the log
LookupsOf(log) == {Unwrap(log[i].tx) : i \in {j \in 1..Len(log) : IsSome(log[j].tx)}}

\* C26: for every status the explorer returned to a lookup of this cycle's
\* fetch, get_tx_confirmations gives max(chain_tip - block_height, 0) + 1
\* when the status is confirmed at block_height, and 0 when it is not
\* confirmed
C26_ConfirmationCount ==
    \A tx_resp \in LookupsOf(fetch_log) :
        IsOk(tx_resp) =>
            LET status == Unwrap(tx_resp)
                height == Unwrap(status.block_height)
            IN  get_tx_confirmations(tx_resp, chain_tip_height) =
                    Some(IF status.confirmed
                         THEN (IF chain_tip_height > height
                               THEN chain_tip_height - height ELSE 0) + 1
                         ELSE 0)

\* C26 witness: the explorer answered a lookup of this cycle's fetch with a
\* status that is not confirmed, and get_tx_confirmations gave no count
C26_Witness ==
    \E tx_resp \in LookupsOf(fetch_log) :
        /\ IsOk(tx_resp)
        /\ ~Unwrap(tx_resp).confirmed
        /\ get_tx_confirmations(tx_resp, chain_tip_height) = None

(***************************************************************************)
(* Properties of the chain-tip height of a cycle (Spec).                   *)
(***************************************************************************)
\* C27: the explorer is asked for the chain tip at the chain-tip step only,
\* which a cycle enters once, after the operators replace; the height
\* changes in that step only, to the value fetched; the counts cached by
\* the batch applies and the removals of the purges of the cycle are those
\* the height gives
C27_OneTipPerCycle ==
    /\ [][/\ IsSome(tip_log') <=> pc = "chain_tip"
          /\ pc' = "chain_tip" => pc = "update_operators"
          /\ chain_tip_height' # chain_tip_height =>
                /\ tip_log' = Some(Ok(chain_tip_height'))
                /\ pc' = "read_active"
          /\ pc' = "read_active" => tip_log' = Some(Ok(chain_tip_height'))]_vars
    /\ [](PostApply =>
            \A k \in Ids, c \in Counts :
                (ReportedTerminal(fetch_log, k, c) /\ c < MaxTxConfirmations) =>
                    /\ k \in DOMAIN TableOf(Unwrap(apply_log).kind)
                    /\ TableOf(Unwrap(apply_log).kind)[k].confirmations = c)
    /\ [](IsSome(purge_log) =>
            LET log == Unwrap(purge_log)
            IN  DOMAIN log.before \ DOMAIN TableOf(log.kind) =
                    {k \in DOMAIN log.before :
                        DueForPurge(log.kind, log.before, log.txs, chain_tip_height, k)})

\* C27 witness: in a cycle after the first, with a height other than the
\* one before the first fetch, the reimbursement purge removed an entry
C27_Witness ==
    /\ cycles_written >= 1
    /\ chain_tip_height = MaxTxConfirmations
    /\ IsSome(purge_log)
    /\ Unwrap(purge_log).kind = "reimbursements"
    /\ DOMAIN Unwrap(purge_log).before # DOMAIN reimbursements

(***************************************************************************)
(* Properties of the identities a cycle queries (Spec).                    *)
(***************************************************************************)
\* C28: in the detail loop of one entity, no identity's detail is queried
\* more than once
C28_QueriedOnce ==
    \A k \in Ids : Cardinality(RecordsOf(fetch_log, k)) <= 1

\* C28 witness: the detail of one identity was queried twice in the same
\* detail loop
C28_Witness ==
    \E k \in Ids : Cardinality(RecordsOf(fetch_log, k)) = 2

\* the entity whose list, details or batch the loop is at
KindAt(at) ==
    CASE at \in {"dep_list", "dep_detail", "dep_apply", "dep_purge"} -> "deposits"
      [] at \in {"wd_list", "wd_detail", "wd_apply", "wd_purge"} -> "withdrawals"
      [] at \in {"rb_list", "rb_detail", "rb_apply", "rb_purge"} -> "reimbursements"

\* the identities cached with a non-terminal status in the table of kind
ActiveIn(kind) ==
    {k \in DOMAIN TableOf(kind) : TableOf(kind)[k].data.status \in NonTerminalOf(kind)}

\* C29: right after the list query of an entity, whatever the operators
\* answered to it, every identity cached as non-terminal is among the
\* identities to query; and when the detail loop is over, the detail of
\* each of them has been queried
C29_ActiveQueried ==
    /\ ListQueried => ActiveIn(KindAt(pc)) \subseteq SeqToSet(requests)
    /\ pc \in {"dep_apply", "wd_apply", "rb_apply"} =>
            \A k \in ActiveIn(KindAt(pc)) : RecordsOf(fetch_log, k) # {}

\* C29 witness: the list query failed at every operator, and the detail of
\* an identity cached as non-terminal, which no operator listed, is about
\* to be queried
C29_Witness ==
    /\ pc \in {"dep_detail", "wd_detail", "rb_detail"}
    /\ ListQueried
    /\ \A op \in DOMAIN ListAnswers : ListAnswers[op] = Err
    /\ ActiveIn(KindAt(pc)) # {}
    /\ requests # <<>>

\* C30: after the batch apply, every identity pushed to the batch is cached
\* with the data and the confirmations pushed last, whatever its cached
\* status was before, and every other entry is as it was before the apply
C30_OverwritesAnyStatus ==
    PostApply =>
        LET kind == Unwrap(apply_log).kind
            pre == Unwrap(apply_log).before
            table == TableOf(kind)
        IN  \A k \in Ids :
                IF PushesFor(kind, fetch_log, k) # {}
                THEN /\ k \in DOMAIN table
                     /\ table[k].data = LastPush(kind, fetch_log, k)[1]
                     /\ table[k].confirmations = LastPush(kind, fetch_log, k)[2]
                ELSE /\ k \in DOMAIN table <=> k \in DOMAIN pre
                     /\ k \in DOMAIN pre => table[k] = pre[k]

\* C30 witness: the batch apply took an entry cached with a terminal status
\* back to a non-terminal one
C30_Witness ==
    /\ PostApply
    /\ LET kind == Unwrap(apply_log).kind
           pre == Unwrap(apply_log).before
       IN  \E k \in DOMAIN pre \cap DOMAIN TableOf(kind) :
                /\ pre[k].data.status \in TerminalOf(kind)
                /\ TableOf(kind)[k].data.status \in NonTerminalOf(kind)

(***************************************************************************)
(* Invariants of the cached entries (Spec).                                *)
(***************************************************************************)
\* C31: every cached entry with a non-terminal status has a confirmation
\* count of 0
C31_NonTerminalZero ==
    \A kind \in EntityKinds :
        \A k \in DOMAIN TableOf(kind) :
            TableOf(kind)[k].data.status \in NonTerminalOf(kind) =>
                TableOf(kind)[k].confirmations = 0

\* C31 witness: an entry cached as terminal with a positive count has been
\* overwritten by a non-terminal report and holds count 0
C31_Witness ==
    /\ PostApply
    /\ LET kind == Unwrap(apply_log).kind
           pre == Unwrap(apply_log).before
       IN  \E k \in DOMAIN pre \cap DOMAIN TableOf(kind) :
                /\ pre[k].confirmations > 0
                /\ TableOf(kind)[k].data.status \in NonTerminalOf(kind)
                /\ TableOf(kind)[k].confirmations = 0

\* the settlement id field of the cached data of kind
SettlementField(kind, data) ==
    CASE kind = "deposits" -> data.deposit_txid
      [] kind = "withdrawals" -> data.fulfillment_txid
      [] kind = "reimbursements" -> data.payout_txid

\* C32: the settlement id of a cached entry (deposit_txid, fulfillment_txid,
\* payout_txid) is set iff the entry's status is Complete
C32_SettlementIffComplete ==
    \A kind \in EntityKinds :
        \A k \in DOMAIN TableOf(kind) :
            IsSome(SettlementField(kind, TableOf(kind)[k].data)) <=>
                TableOf(kind)[k].data.status = "Complete"

\* C32 witness: a table holds a Complete entry with its settlement id and
\* an entry with another terminal status and none
C32_Witness ==
    \E kind \in EntityKinds :
        \E k, j \in DOMAIN TableOf(kind) :
            /\ TableOf(kind)[k].data.status = "Complete"
            /\ IsSome(SettlementField(kind, TableOf(kind)[k].data))
            /\ TableOf(kind)[j].data.status \in TerminalOf(kind) \ {"Complete"}
            /\ ~IsSome(SettlementField(kind, TableOf(kind)[j].data))

C34_SnapshotAtOneInstant ==
    [][/\ read_holders # {} => UNCHANGED cachevars
       /\ read_holders' # {} => pc' \notin {"dep_purge", "wd_purge", "rb_purge"}
       /\ \A r \in ReaderIds :
            (rd_pc[r] = "read" /\ rd_pc'[r] # "read") =>
                /\ r \in read_holders
                /\ ~write_locked]_vars

\* C34 witness: a call holds the read guard between two write blocks of a
\* cycle, after the block of the cached entity and before the next one
C34_Witness ==
    /\ read_holders # {}
    /\ IsSome(purge_log)
    /\ DOMAIN TableOf(Unwrap(purge_log).kind) # {}
    /\ pc \in {"wd_list", "rb_list", "signal"}

(***************************************************************************)
(* One withdrawal or claim detail query, attempt by attempt: each          *)
(* invocation of the closure gets an answer of the operator (an error, no  *)
(* info, or an info), and execute_with_retries sees what the closure makes *)
(* of it.                                                                  *)
(***************************************************************************)
\* what get_withdrawal_info may answer to one invocation
DetailAnswers == {Err, Ok(None)} \cup {Ok(Some(i)) : i \in RpcWithdrawalInfos(1)}

\* the answers of the operators to the invocations so far, in call order
RawAnswers == IF IsSome(answer_log) THEN Unwrap(answer_log).answers ELSE <<>>

DetailFrame ==
    UNCHANGED <<cfgvars, cachevars, lockvars, gatevars, loopvars, rdvars, notify_count,
                cycles_written, purge_log, tip_log, fetch_log, apply_log, upsert_log>>

\* one invocation of the closure on the current operator
DetailAttempt(raw) ==
    /\ q_pc = "call"
    /\ answer_log' = Some([of |-> "detail", answers |-> Append(RawAnswers, raw)])
    /\ IF IsOk(detail_operation(raw)) THEN AttemptOk ELSE AttemptErr
    /\ DetailFrame

DetailStart == QueryStart /\ UNCHANGED answer_log /\ DetailFrame

DetailSleep == BackoffSleep /\ UNCHANGED answer_log /\ DetailFrame

DetailInit ==
    /\ operators = LoopOperators
    /\ world = NoWorld
    /\ readers = {}
    /\ settled = {}
    /\ QueryIdle
    /\ CacheInit
    /\ LoopInit

DetailNext ==
    \/ DetailStart
    \/ \E raw \in DetailAnswers : DetailAttempt(raw)
    \/ DetailSleep

SpecDetail == DetailInit /\ [][DetailNext]_vars

\* the operator answered invocation i of the closure with an info
Informed(i) == IsOk(RawAnswers[i]) /\ IsSome(Unwrap(RawAnswers[i]))

\* C35: in a withdrawal or claim detail query (a) an invocation counts as
\* a success iff the operator answered with an info, so an answer without
\* info is a failed attempt; (b) a failed attempt that is not the
\* operator's last is followed by an attempt on the same operator, the
\* last one by an attempt on the next operator; (c) the query returns None
\* only when every operator failed or answered without info on all of its
\* MaxRetries + 1 attempts
C35_NoneIsFailure ==
    /\ Len(RawAnswers) = Len(calls)
    /\ \A i \in 1..Len(calls) : calls[i].ok <=> Informed(i)
    /\ \A i \in 1..Len(calls) :
          (~Informed(i) /\ i < Len(calls)) =>
              IF Cardinality({j \in 1..i : calls[j].op = calls[i].op}) <= MaxRetries
              THEN calls[i + 1].op = calls[i].op
              ELSE calls[i + 1].op > calls[i].op
    /\ (q_pc = "done") =>
          IF \E i \in 1..Len(calls) : Informed(i)
          THEN IsSome(q_result)
          ELSE /\ q_result = None
               /\ \A k \in ConfiguredKeys : Cardinality(CallsOn(k)) = MaxRetries + 1

\* C35 witness: the first operator answered all its attempts without info,
\* and the query returned what the second operator answered
C35_Witness ==
    /\ q_pc = "done"
    /\ IsSome(q_result)
    /\ Len(calls) > MaxRetries + 1
    /\ \A i \in 1..(MaxRetries + 1) : RawAnswers[i] = Ok(None)

(***************************************************************************)
(* Invariants of the keys and of the stored counts (Spec).                 *)
(***************************************************************************)
\* the identity field of the cached data of kind
IdentityOf(kind, data) ==
    CASE kind = "deposits" -> data.deposit_request_txid
      [] kind = "withdrawals" -> data.withdrawal_request_txid
      [] kind = "reimbursements" -> data.claim_txid

C37_StoredBelowMax ==
    /\ \A kind \in EntityKinds :
          \A k \in DOMAIN TableOf(kind) : TableOf(kind)[k].confirmations < MaxTxConfirmations
    /\ IsSome(purge_log) =>
          LET log == Unwrap(purge_log)
          IN  \A k \in DOMAIN log.before :
                  /\ log.before[k].confirmations < MaxTxConfirmations
                  /\ k \notin DOMAIN TableOf(log.kind) <=>
                        DueForPurge(log.kind, log.before, log.txs, chain_tip_height, k)

\* C37 witness: a purge removed an entry whose stored count was 1 on an
\* explorer answer that gave MaxTxConfirmations + 1
C37_Witness ==
    /\ IsSome(purge_log)
    /\ LET log == Unwrap(purge_log)
       IN  \E k \in DOMAIN log.before \ DOMAIN TableOf(log.kind) :
                /\ log.before[k].confirmations = 1
                /\ PurgeCount(log.kind, log.before[k], log.txs) = Some(MaxTxConfirmations + 1)

(***************************************************************************)
(* Backoff sleeps of execute_with_retries (SpecQuery).                     *)
(***************************************************************************)
\* the attempts that were followed by another attempt on the same operator
RetriedCalls == {i \in 1..Len(calls) : i < Len(calls) /\ calls[i].op = calls[i + 1].op}

\* a sleep has been taken and the attempt after it not yet made
RetryPending == q_pc = "call" /\ attempt > 0

\* C38: every backoff sleep lies between two consecutive attempts on the
\* same operator: the sleeps taken so far are one per attempt that was
\* followed by another attempt on the same operator (plus the one whose
\* retry is about to be made); a sleep starts only on a failed attempt that
\* is not the operator's last, and is followed by an attempt on the same
\* operator; the step that moves to the next operator, or ends the call,
\* takes no sleep; an operator that failed 4 times had exactly 3 sleeps
C38_SleepBetweenAttempts ==
    /\ [](/\ sleeps = Cardinality(RetriedCalls) + (IF RetryPending THEN 1 ELSE 0)
          /\ \A k \in Keys :
                Cardinality(FailedCallsOn(k)) = MaxRetries + 1 =>
                    Cardinality(RetriedCalls \cap CallsOn(k)) = MaxRetries
          /\ q_pc = "sleep" =>
                /\ calls # <<>>
                /\ ~calls[Len(calls)].ok
                /\ calls[Len(calls)].op = clients[q_idx]
                /\ attempt < MaxRetries
          /\ (q_pc = "done" /\ q_result = None) =>
                sleeps = Cardinality(ConfiguredKeys) * MaxRetries)
    /\ [][/\ sleeps' # sleeps =>
                /\ q_pc = "sleep"
                /\ q_pc' = "call"
                /\ q_idx' = q_idx
                /\ sleeps' = sleeps + 1
                /\ calls' = calls
          /\ (q_pc = "call" /\ (q_idx' # q_idx \/ q_pc' = "done")) =>
                /\ sleeps' = sleeps
                /\ q_pc' # "sleep"
          /\ (q_pc = "idle" /\ q_pc' = "call") => sleeps' = 0 /\ attempt' = 0]_vars

\* C38 witness: the first operator failed its 4 attempts with 3 sleeps, and
\* the next operator has been attempted with no further sleep
C38_Witness ==
    /\ Len(calls) = MaxRetries + 2
    /\ Cardinality(FailedCallsOn(calls[1].op)) = MaxRetries + 1
    /\ calls[Len(calls)].op # calls[1].op
    /\ sleeps = MaxRetries

====
